---- MODULE Spec2Model ----
(***************************************************************************)
(* State machine of the viewer state store                                 *)
(* (src/viewer/features/viewerState/state/viewerStateStore.js) over a      *)
(* small scene graph: selection, hidden set, global and individual         *)
(* isolation, the uuid -> object map and the descendant-mesh cache.        *)
(***************************************************************************)
EXTENDS Integers, Sequences, FiniteSets, TLC

\* ------------------------------------------------------------------------
\* Scene graphs.  A THREE.Object3D is identified by its uuid; the objects of
\* a scene are a tree given by `children` (ordered) and `parent`.
\* ------------------------------------------------------------------------

\* null / undefined identifier
NoId == "null"

\* Scene "A":  R -> [G -> [m1 -> [m2]], m3]      Scene "B":  Q -> [k]
\* m1 is a Mesh that itself carries a child Mesh (legal in a three.js graph).
\* an identifier that is a key of no object map
Ghost == "ghost"

Scenes == {"A", "B"}

\* the scene the viewer loads (useGLTF of one fixed asset)
LoadedScenes == {"A"}

SceneRoot(s) == IF s = "A" THEN "R" ELSE "Q"

\* obj.children
children(n) ==
    CASE n = "R"  -> <<"G", "m3">>
      [] n = "G"  -> <<"m1">>
      [] n = "m1" -> <<"m2">>
      [] n = "Q"  -> <<"k">>
      [] OTHER    -> <<>>

\* obj.parent (null for a scene root)
parent(n) ==
    CASE n = "G"  -> "R"
      [] n = "m3" -> "R"
      [] n = "m1" -> "G"
      [] n = "m2" -> "m1"
      [] n = "k"  -> "Q"
      [] OTHER    -> NoId

\* obj.type
type(n) == IF n \in {"m1", "m2", "m3", "k"} THEN "Mesh" ELSE "Group"

\* obj.name ("" for an object the asset leaves unnamed)
name(n) ==
    CASE n = "R"  -> "Scene"
      [] n = "G"  -> "Housing"
      [] n = "m1" -> "Rotor"
      [] n = "m2" -> ""
      [] n = "m3" -> "Bolt"
      [] n = "Q"  -> "Scene"
      [] n = "k"  -> "Cap"
      [] OTHER    -> ""

RECURSIVE traverseAll(_)
\* Object3D.traverse: the object itself, then each child's subtree in order
RECURSIVE traverse(_)
traverse(n) == <<n>> \o traverseAll(children(n))

traverseAll(cs) ==
    IF cs = <<>> THEN <<>> ELSE traverse(Head(cs)) \o traverseAll(Tail(cs))

Range(q) == {q[i] : i \in 1..Len(q)}

\* uuids visited by obj.traverse
Subtree(n) == Range(traverse(n))

RECURSIVE Ancestors(_)
\* the uuids collected by `let parent = obj.parent; while (parent) ...`
Ancestors(n) ==
    IF parent(n) = NoId THEN {} ELSE {parent(n)} \cup Ancestors(parent(n))

\* the map InteractiveModel builds with scene.traverse: every object's uuid
SceneMap(s) == Subtree(SceneRoot(s))

\* identifiers callers pass: every uuid of a loaded scene, and an unknown one
AllIds == UNION {SceneMap(s) : s \in LoadedScenes} \cup {Ghost}


\* ------------------------------------------------------------------------
\* State
\* ------------------------------------------------------------------------
VARIABLES
    objectMapRef,             \* keys of the module-level uuid -> object map
    meshDescendantsCacheRef,  \* uuid -> sequence of descendant mesh uuids
    selectedItem,             \* display name of the selection, or NoId
    selectedId,               \* uuid of the selection, or NoId
    selectedIds,              \* sequence of selected mesh uuids
    hiddenObjects,            \* set of hidden uuids
    isolationMode,            \* global isolation flag
    individualIsolatedId,     \* uuid in individual isolation, or NoId
    lastOp,                   \* the store operation that produced this state
    pre,                      \* the store fields as that operation found them
    pre2,                     \* hidden set and isolated id before the previous
                              \* call, when that call was the same operation
                              \* with the same argument
    explosionFactor,          \* explosion progress, in hundredths (0..Unit)
    explosionInput,           \* the value last passed to setExplosionFactor
    root,                     \* the scene graph handed to buildExplosionTargets
    explosionNodes,           \* what buildExplosionTargets selected from it
    nodeData,                 \* the node descriptors given to buildSiblingOffsetByIndex
    siblingOffsetByIndex,     \* the Map it returns: node index -> offset
    overlapRun,               \* a call of resolveProjectedOverlaps: its loop counters and effects
    hook,                     \* the component using useExplosionEffect: its props and effect
    explosionTargetsRef,      \* explosionTargetsRef.current
    maxDistanceRef,           \* maxDistanceRef.current
    position,                 \* object uuid -> obj.position
    effectLog,                \* the hook's last step, what it found, what was captured
    crowdingRun,              \* a call of buildWorldTargets followed by the overlap resolver
    spreadRun,                \* the descriptors the overlap resolver works on, pair by pair
    directionRun,             \* a call of one of the direction functions: input and result
    partsLoader,              \* the parts service: cache, requests in flight, calls
    iconClick,                \* a hierarchy node's visibility icon: timer and calls made
    canvasView,               \* the scene objects' visible / hidden flags and the hover
    hierarchyFilter,          \* useHierarchyFilter: tree, filter text and result
    debounced                 \* useDebouncedValue: input, timer and debounced value

store == <<selectedItem, selectedId, selectedIds, hiddenObjects,
           isolationMode, individualIsolatedId>>

refs == <<objectMapRef, meshDescendantsCacheRef>>

\* state that the selection / visibility / isolation operations never write
layout == <<root, explosionNodes>>

siblings == <<nodeData, siblingOffsetByIndex>>

overlap == <<overlapRun>>

effect == <<hook, explosionTargetsRef, maxDistanceRef, position, effectLog>>

features == <<crowdingRun, spreadRun, directionRun, partsLoader, iconClick,
              canvasView, hierarchyFilter, debounced>>

outside == <<explosionFactor, explosionInput, layout, siblings, overlap, effect,
             features>>

vars == <<objectMapRef, meshDescendantsCacheRef, selectedItem, selectedId,
          selectedIds, hiddenObjects, isolationMode, individualIsolatedId,
          lastOp, pre, pre2, outside>>

\* everything but the variables of `features`
base == <<store, refs, lastOp, pre, pre2, explosionFactor, explosionInput,
          layout, siblings, overlap, effect>>

\* snapshot of get()
Snapshot ==
    [selectedItem |-> selectedItem, selectedId |-> selectedId,
     selectedIds |-> selectedIds, hiddenObjects |-> hiddenObjects,
     isolationMode |-> isolationMode,
     individualIsolatedId |-> individualIsolatedId]

Call(op, arg) == [op |-> op, arg |-> arg]

\* bookkeeping of one store call: which call, and the state it started from
Record(op, arg) ==
    /\ lastOp' = Call(op, arg)
    /\ pre' = Snapshot
    /\ pre2' = IF lastOp = Call(op, arg)
                 THEN [same |-> TRUE, hiddenObjects |-> pre.hiddenObjects,
                       individualIsolatedId |-> pre.individualIsolatedId]
                 ELSE [same |-> FALSE, hiddenObjects |-> {},
                       individualIsolatedId |-> NoId]

\* ------------------------------------------------------------------------
\* Helpers of the store
\* ------------------------------------------------------------------------

\* obj.traverse(child => child.type === "Mesh" && meshIds.push(child.uuid))
MeshesOf(q) == SelectSeq(q, LAMBDA c : type(c) = "Mesh")

\* variant: a group lists only the meshes among its direct children
buildMeshDescendantsCache_ChildrenOnly(map) ==
    [uuid \in map |->
        IF type(uuid) = "Mesh" THEN <<uuid>> ELSE MeshesOf(children(uuid))]

buildMeshDescendantsCache(map) ==
    [uuid \in map |->
        IF type(uuid) = "Mesh" THEN <<uuid>> ELSE MeshesOf(traverse(uuid))]

\* meshDescendantsCacheRef[id] || []
getDescendantMeshIds(id) ==
    IF id \in DOMAIN meshDescendantsCacheRef
    THEN meshDescendantsCacheRef[id] ELSE <<>>

\* !get().hiddenObjects.has(id)
isObjectVisible(id) == id \notin hiddenObjects

\* get().individualIsolatedId === id
isIndividuallyIsolated(id) == individualIsolatedId = id

\* obj.name || obj.uuid || "(unnamed)"   (a uuid is never empty)
DisplayName(obj) == IF name(obj) # "" THEN name(obj) ELSE obj

\* variant: "show" deletes only the toggled uuid, not its descendants
ToggledHidden_ShowSelfOnly(id, hidden) ==
    IF id \in hidden
    THEN hidden \ {id}
    ELSE hidden \cup Subtree(id)

\* variant: "hide" adds only the toggled uuid, not its descendants
ToggledHidden_HideSelfOnly(id, hidden) ==
    IF id \in hidden
    THEN hidden \ Subtree(id)
    ELSE hidden \cup {id}

\* the hidden set toggleVisibility(id) stores, for an id in the map
ToggledHidden(id, hidden) ==
    IF id \in hidden
    THEN hidden \ Subtree(id)
    ELSE hidden \cup Subtree(id)

\* variant: the ancestors of the selection are not kept visible
GlobalIsolationHidden_NoAncestors(sel) ==
    IF sel \in objectMapRef
    THEN {uuid \in objectMapRef : uuid \notin Subtree(sel)}
    ELSE {}

\* the hidden set toggleIsolationMode computes on entering isolation
GlobalIsolationHidden(sel) ==
    IF sel \in objectMapRef
    THEN {uuid \in objectMapRef : uuid \notin (Subtree(sel) \cup Ancestors(sel))}
    ELSE {}

\* the hidden set toggleIndividualIsolation(id) computes on entering isolation
IndividualIsolationHidden(id) ==
    IF id \in objectMapRef
    THEN {uuid \in objectMapRef : uuid \notin (Subtree(id) \cup Ancestors(id))}
    ELSE {}

\* ------------------------------------------------------------------------
\* Initial state: the store as created, before any scene is loaded
\* ------------------------------------------------------------------------
InitStore ==
    /\ objectMapRef = {}
    /\ meshDescendantsCacheRef = << >>
    /\ selectedItem = NoId
    /\ selectedId = NoId
    /\ selectedIds = <<>>
    /\ hiddenObjects = {}
    /\ isolationMode = FALSE
    /\ individualIsolatedId = NoId
    /\ lastOp = Call("create", NoId)
    /\ pre = [selectedItem |-> NoId, selectedId |-> NoId, selectedIds |-> <<>>,
              hiddenObjects |-> {}, isolationMode |-> FALSE,
              individualIsolatedId |-> NoId]
    /\ pre2 = [same |-> FALSE, hiddenObjects |-> {},
               individualIsolatedId |-> NoId]

\* numbers are kept in hundredths: Unit stands for 1
Unit == 100

\* no value passed yet
NoInput == [kind |-> "none", n |-> 0]

InitExplosion ==
    /\ explosionFactor = 0
    /\ explosionInput = NoInput

\* no scene graph handed over, nothing selected
NoTree == [size |-> 0, parent |-> <<>>, mesh |-> {}]

NotPicked == [done |-> FALSE, step1 |-> <<>>, step2 |-> <<>>, meshParents |-> <<>>,
              step3 |-> <<>>, picked |-> <<>>, nodes |-> <<>>]

InitLayout ==
    /\ root = NoTree
    /\ explosionNodes = NotPicked

\* buildSiblingOffsetByIndex not called yet
NotCalled == [called |-> FALSE, offsets |-> <<>>]

InitSiblings ==
    /\ nodeData = <<>>
    /\ siblingOffsetByIndex = NotCalled

\* resolveProjectedOverlaps not called yet
NotResolving ==
    [pc |-> "idle", length |-> 0, iteration |-> 0, leftIndex |-> 0,
     rightIndex |-> 0, examined |-> <<>>, changed |-> {}, overlapInPass |-> {}]

InitOverlap == overlapRun = NotResolving

\* obj.position of every object as the asset defines it, in hundredths
RestPosition(n) ==
    CASE n = "G"  -> <<100, 0>>
      [] n = "m1" -> <<0, 200>>
      [] n = "m3" -> <<300, 100>>
      [] n = "k"  -> <<0 - 100, 100>>
      [] OTHER    -> <<0, 0>>

\* no component uses the hook
Unmounted ==
    [mounted |-> FALSE, scene |-> NoId, explosionFactor |-> 0,
     deps |-> "unset", cleanup |-> FALSE, pending |-> FALSE]

InitEffect ==
    /\ hook = Unmounted
    /\ explosionTargetsRef = <<>>
    /\ maxDistanceRef = 0
    /\ position = [n \in UNION {SceneMap(s) : s \in Scenes} |-> RestPosition(n)]
    /\ effectLog = [lastStep |-> "none", targets |-> <<>>, maxDistance |-> 0,
                    position |-> position, captured |-> position, tornDown |-> {},
                    restored |-> {}]

\* buildWorldTargets not called yet
NotBuilt ==
    [stage |-> "idle", centers |-> <<>>, offsets |-> <<>>,
     worldTargets |-> <<>>, built |-> <<>>]

InitCrowding == crowdingRun = NotBuilt

\* the resolver not called yet
NotSpread ==
    [stage |-> "idle", entries |-> <<>>, next |-> 1,
     last |-> [examined |-> FALSE, left |-> 0, right |-> 0, distance |-> [num |-> 0, den |-> 1],
               before |-> <<>>],
     targets |-> <<>>]

InitSpread == spreadRun = NotSpread

\* no direction function called yet
NoDirection ==
    [fn |-> "none", seedString |-> <<>>,
     direction |-> [v |-> <<0, 0, 0>>, den |-> 1, root |-> 1], scale |-> 1,
     result |-> [v |-> <<0, 0, 0>>, den |-> 1, root |-> 1]]

InitDirection == directionRun = NoDirection

\* module state of the parts service after import: no cache, no call made
InitPartsLoader ==
    partsLoader = [cachedParts |-> "null", pending |-> 0,
                   settled |-> "none", afterClear |-> FALSE, firstWave |-> TRUE,
                   last |-> [step |-> "none", data |-> "null",
                             settled |-> "none", afterClear |-> FALSE, pending |-> 0]]

\* hierarchy nodes whose rows the model renders
IconNodes == {"G", "m1"}

\* no row rendered yet, no timer set
InitIconClick ==
    iconClick = [mounted |-> [n \in IconNodes |-> FALSE],
                 clickTimeoutRef |-> [n \in IconNodes |-> 0],
                 timers |-> {}, nextTimer |-> 1, paired |-> {}, orphaned |-> {},
                 last |-> [step |-> "none", node |-> NoId, timer |-> 0]]

\* the loaded scene before InteractiveModel's effects ran: no object flagged
\* hidden, nothing hovered
InitCanvasView ==
    canvasView = [isHidden |-> {}, lastHoveredRef |-> NoId,
                  onHoverArg |-> NoId, onHoverRepeated |-> FALSE,
                  last |-> [step |-> "none", picked |-> NoId, skipped |-> 0,
                            cleared |-> FALSE, stillHidden |-> {},
                            unhovered |-> NoId]]

\* useHierarchyFilter after its first render: empty search, no visibility
\* filter; the memo is computed by the first step
InitHierarchyFilter ==
    hierarchyFilter = [debouncedSearch |-> <<>>, onlyVisible |-> FALSE,
                       computed |-> FALSE, seenHidden |-> {},
                       filteredItems |-> <<>>, matchedIds |-> {},
                       firstMatchId |-> NoId]

\* no component uses useDebouncedValue yet
InitDebounced ==
    debounced = [mounted |-> FALSE, value |-> "", delay |-> 1, debounced |-> "",
                 timers |-> {}, heldFor |-> 0, cancelled |-> FALSE,
                 last |-> [step |-> "none", emitted |-> "", input |-> "",
                           heldFor |-> 0, delay |-> 0, mounted |-> FALSE]]

Init ==
    /\ InitStore
    /\ InitExplosion
    /\ InitLayout
    /\ InitSiblings
    /\ InitOverlap
    /\ InitEffect
    /\ InitCrowding
    /\ InitSpread
    /\ InitDirection
    /\ InitPartsLoader
    /\ InitIconClick
    /\ InitCanvasView
    /\ InitHierarchyFilter
    /\ InitDebounced

\* ------------------------------------------------------------------------
\* Store operations
\* ------------------------------------------------------------------------

setObjectMap(s) ==
    /\ objectMapRef' = SceneMap(s)
    /\ meshDescendantsCacheRef' = buildMeshDescendantsCache(SceneMap(s))
    /\ Record("setObjectMap", s)
    /\ UNCHANGED outside
    /\ UNCHANGED store

toggleVisibility(id) ==
    /\ IF id \notin objectMapRef
       THEN UNCHANGED hiddenObjects
       ELSE hiddenObjects' = ToggledHidden(id, hiddenObjects)
    /\ Record("toggleVisibility", id)
    /\ UNCHANGED outside
    /\ UNCHANGED <<selectedItem, selectedId, selectedIds, isolationMode,
                   individualIsolatedId, refs>>

\* variant: the entering test reads `isolationMode && selectedId`
toggleIsolationMode_NeverEnters ==
    /\ IF isolationMode /\ selectedId # NoId
       THEN /\ hiddenObjects' = GlobalIsolationHidden(selectedId)
            /\ isolationMode' = TRUE
            /\ individualIsolatedId' = NoId
       ELSE /\ hiddenObjects' = {}
            /\ isolationMode' = FALSE
            /\ individualIsolatedId' = NoId
    /\ Record("toggleIsolationMode", NoId)
    /\ UNCHANGED outside
    /\ UNCHANGED <<selectedItem, selectedId, selectedIds, refs>>

\* variant: without a selection the call returns early and changes nothing
toggleIsolationMode_EarlyReturn ==
    /\ IF ~isolationMode /\ selectedId # NoId
       THEN /\ hiddenObjects' = GlobalIsolationHidden(selectedId)
            /\ isolationMode' = TRUE
            /\ individualIsolatedId' = NoId
       ELSE IF ~isolationMode
       THEN UNCHANGED <<hiddenObjects, isolationMode, individualIsolatedId>>
       ELSE /\ hiddenObjects' = {}
            /\ isolationMode' = FALSE
            /\ individualIsolatedId' = NoId
    /\ Record("toggleIsolationMode", NoId)
    /\ UNCHANGED outside
    /\ UNCHANGED <<selectedItem, selectedId, selectedIds, refs>>

toggleIsolationMode ==
    /\ IF ~isolationMode /\ selectedId # NoId
       THEN /\ hiddenObjects' = GlobalIsolationHidden(selectedId)
            /\ isolationMode' = TRUE
            /\ individualIsolatedId' = NoId
       ELSE /\ hiddenObjects' = {}
            /\ isolationMode' = FALSE
            /\ individualIsolatedId' = NoId
    /\ Record("toggleIsolationMode", NoId)
    /\ UNCHANGED outside
    /\ UNCHANGED <<selectedItem, selectedId, selectedIds, refs>>

\* variant: the individual isolation is not reset
showAll_KeepIndividual ==
    /\ hiddenObjects' = {}
    /\ isolationMode' = FALSE
    /\ UNCHANGED individualIsolatedId
    /\ Record("showAll", NoId)
    /\ UNCHANGED outside
    /\ UNCHANGED <<selectedItem, selectedId, selectedIds, refs>>

showAll ==
    /\ hiddenObjects' = {}
    /\ isolationMode' = FALSE
    /\ individualIsolatedId' = NoId
    /\ Record("showAll", NoId)
    /\ UNCHANGED outside
    /\ UNCHANGED <<selectedItem, selectedId, selectedIds, refs>>

\* variant: leaving individual isolation keeps the hidden set
toggleIndividualIsolation_KeepHidden(id) ==
    /\ IF individualIsolatedId = id
       THEN /\ UNCHANGED hiddenObjects
            /\ individualIsolatedId' = NoId
       ELSE /\ hiddenObjects' = IndividualIsolationHidden(id)
            /\ individualIsolatedId' = id
    /\ Record("toggleIndividualIsolation", id)
    /\ UNCHANGED outside
    /\ UNCHANGED <<selectedItem, selectedId, selectedIds, isolationMode, refs>>

toggleIndividualIsolation(id) ==
    /\ IF individualIsolatedId = id
       THEN /\ hiddenObjects' = {}
            /\ individualIsolatedId' = NoId
       ELSE /\ hiddenObjects' = IndividualIsolationHidden(id)
            /\ individualIsolatedId' = id
    /\ Record("toggleIndividualIsolation", id)
    /\ UNCHANGED outside
    /\ UNCHANGED <<selectedItem, selectedId, selectedIds, isolationMode, refs>>

setSelectedObject(obj) ==
    /\ IF obj = NoId
       THEN /\ selectedItem' = NoId
            /\ selectedId' = NoId
            /\ selectedIds' = <<>>
       ELSE /\ selectedItem' = DisplayName(obj)
            /\ selectedId' = obj
            /\ selectedIds' = <<obj>>
    /\ Record("setSelectedObject", obj)
    /\ UNCHANGED outside
    /\ UNCHANGED <<hiddenObjects, isolationMode, individualIsolatedId, refs>>

\* variant: an id that is not found returns early, keeping the selection
setSelectedById_KeepOnMiss(id) ==
    /\ IF id \notin objectMapRef
       THEN UNCHANGED <<selectedId, selectedItem, selectedIds>>
       ELSE /\ selectedItem' = DisplayName(id)
            /\ selectedId' = id
            /\ selectedIds' = getDescendantMeshIds(id)
    /\ Record("setSelectedById", id)
    /\ UNCHANGED outside
    /\ UNCHANGED <<hiddenObjects, isolationMode, individualIsolatedId, refs>>

setSelectedById(id) ==
    /\ IF id \notin objectMapRef
       THEN /\ selectedId' = NoId
            /\ selectedItem' = NoId
            /\ selectedIds' = <<>>
       ELSE /\ selectedItem' = DisplayName(id)
            /\ selectedId' = id
            /\ selectedIds' = getDescendantMeshIds(id)
    /\ Record("setSelectedById", id)
    /\ UNCHANGED outside
    /\ UNCHANGED <<hiddenObjects, isolationMode, individualIsolatedId, refs>>

clearSelection ==
    /\ selectedItem' = NoId
    /\ selectedId' = NoId
    /\ selectedIds' = <<>>
    /\ Record("clearSelection", NoId)
    /\ UNCHANGED outside
    /\ UNCHANGED <<hiddenObjects, isolationMode, individualIsolatedId, refs>>

Next ==
    \/ \E s \in LoadedScenes : setObjectMap(s)
    \/ \E id \in AllIds : toggleVisibility(id)
    \/ toggleIsolationMode
    \/ showAll
    \/ \E id \in AllIds : toggleIndividualIsolation(id)
    \/ \E obj \in objectMapRef \cup {NoId} : setSelectedObject(obj)
    \/ \E id \in AllIds \cup {NoId} : setSelectedById(id)
    \/ clearSelection

Spec == Init /\ [][Next]_vars


\* ------------------------------------------------------------------------
\* Explosion factor
\* ------------------------------------------------------------------------

\* how far the numeric inputs reach below 0 and above 1, in hundredths
InputSpan == 50

\* values a caller may pass: numbers, numeric and other strings, null,
\* undefined, NaN and the infinities
FactorInputs ==
    [kind : {"number", "numeric string"}, n : (0 - InputSpan)..(Unit + InputSpan)]
    \cup [kind : {"text", "null", "undefined", "NaN", "Infinity", "-Infinity"},
          n : {0}]

\* Number(value)
ToNumber(value) ==
    CASE value.kind \in {"number", "numeric string"} ->
             [cls |-> "finite", n |-> value.n]
      [] value.kind = "null" -> [cls |-> "finite", n |-> 0]
      [] value.kind = "Infinity" -> [cls |-> "+inf", n |-> 0]
      [] value.kind = "-Infinity" -> [cls |-> "-inf", n |-> 0]
      [] OTHER -> [cls |-> "NaN", n |-> 0]

\* Number.isFinite(parsed)
IsFinite(parsed) == parsed.cls = "finite"

Min(a, b) == IF a <= b THEN a ELSE b

Max(a, b) == IF a >= b THEN a ELSE b

\* variant: only the upper clamp, Math.min(parsed, 1)
SafeValue_NoLowerClamp(parsed) ==
    IF IsFinite(parsed) THEN Min(parsed.n, Unit) ELSE 0

\* Number.isFinite(parsed) ? Math.min(Math.max(parsed, 0), 1) : 0
SafeValue(parsed) ==
    IF IsFinite(parsed) THEN Min(Max(parsed.n, 0), Unit) ELSE 0

setExplosionFactor(value) ==
    /\ explosionFactor' = SafeValue(ToNumber(value))
    /\ explosionInput' = value
    /\ UNCHANGED <<store, refs, lastOp, pre, pre2, layout, siblings, overlap, effect, features>>

\* variant: the reset also drops the selection
resetExplosion_ClearsSelection ==
    /\ explosionFactor' = 0
    /\ explosionInput' = NoInput
    /\ selectedItem' = NoId
    /\ selectedId' = NoId
    /\ selectedIds' = <<>>
    /\ UNCHANGED <<hiddenObjects, isolationMode, individualIsolatedId>>
    /\ UNCHANGED <<refs, lastOp, pre, pre2, layout, siblings, overlap, effect, features>>

resetExplosion ==
    /\ explosionFactor' = 0
    /\ explosionInput' = NoInput
    /\ UNCHANGED <<store, refs, lastOp, pre, pre2, layout, siblings, overlap, effect, features>>

NextExplosionFactor ==
    \/ \E value \in FactorInputs : setExplosionFactor(value)
    \/ resetExplosion

\* the explosion slider and reset button acting on the store
SpecExplosionFactor == Init /\ [][NextExplosionFactor]_vars

\* ------------------------------------------------------------------------
\* Explosion node selection (pickExplosionNodes)
\*
\* A scene graph of `size` objects numbered 1..size in breadth-first order:
\* object 1 is the root (a Group without parent), parent[i] < i is the parent
\* of object i, the children of an object are ordered by number, and `mesh`
\* is the set of objects with isMesh.
\* ------------------------------------------------------------------------

\* largest scene graph drawn
MaxNodes == 7

RECURSIVE ParentVectors(_)
\* parent vectors of the ordered trees with n objects: parent[1] = 0 and, for
\* i > 1, 1 <= parent[i] < i with parent[i] <= parent[i + 1]
ParentVectors(n) ==
    IF n = 1 THEN {<<0>>}
    ELSE UNION {{Append(p, k) : k \in (IF p[n - 1] = 0 THEN 1 ELSE p[n - 1])..(n - 1)} :
                   p \in ParentVectors(n - 1)}

SceneGraphs ==
    UNION {[size : {n}, parent : ParentVectors(n), mesh : SUBSET (2..n)] :
              n \in 1..MaxNodes}

\* obj.children
Kids(T, x) ==
    SelectSeq([i \in 1..T.size |-> i], LAMBDA c : T.parent[c] = x)

RECURSIVE TraverseFrom(_, _)
RECURSIVE TraverseEach(_, _)
\* Object3D.traverse from x: x, then the subtree of each child in order
TraverseFrom(T, x) == <<x>> \o TraverseEach(T, Kids(T, x))

TraverseEach(T, xs) ==
    IF xs = <<>> THEN <<>>
    ELSE TraverseFrom(T, Head(xs)) \o TraverseEach(T, Tail(xs))

hasMeshDescendant(T, x) ==
    \E i \in 1..Len(TraverseFrom(T, x)) : TraverseFrom(T, x)[i] \in T.mesh

getMeshNodes(T, x) == SelectSeq(TraverseFrom(T, x), LAMBDA o : o \in T.mesh)

RECURSIVE CollectParents(_, _, _)
\* the traversal callback of getUniqueMeshParents over the objects in `todo`,
\* `acc` being the values of parentsByUuid in insertion order
CollectParents(T, todo, acc) ==
    IF todo = <<>> THEN acc
    ELSE LET obj == Head(todo) IN
         IF obj \notin T.mesh \/ T.parent[obj] = 0
         THEN CollectParents(T, Tail(todo), acc)
         ELSE IF \E i \in 1..Len(acc) : acc[i] = T.parent[obj]
         THEN CollectParents(T, Tail(todo), acc)
         ELSE CollectParents(T, Tail(todo), Append(acc, T.parent[obj]))

getUniqueMeshParents(T, x) == CollectParents(T, TraverseFrom(T, x), <<>>)

\* root.children.filter(hasMeshDescendant)
CandidatesStep1(T) ==
    SelectSeq(Kids(T, 1), LAMBDA c : hasMeshDescendant(T, c))

\* one level deeper when at most one root child qualifies
CandidatesStep2(T) ==
    LET candidates == CandidatesStep1(T) IN
    IF Len(candidates) <= 1 /\ Len(candidates) >= 1
    THEN LET nestedCandidates ==
                 SelectSeq(Kids(T, candidates[1]),
                           LAMBDA c : hasMeshDescendant(T, c))
         IN IF Len(nestedCandidates) > 0 THEN nestedCandidates ELSE candidates
    ELSE candidates

\* getUniqueMeshParents(root).filter(hasMeshDescendant)
MeshParents(T) ==
    SelectSeq(getUniqueMeshParents(T, 1), LAMBDA c : hasMeshDescendant(T, c))

\* variant: the mesh parents also win a tie (`>=` for `>`)
CandidatesStep3_TieWins(T) ==
    LET candidates == CandidatesStep2(T) IN
    IF Len(candidates) < 6 /\ Len(MeshParents(T)) >= Len(candidates)
    THEN MeshParents(T) ELSE candidates

\* the mesh parents when there are fewer than 6 candidates and more parents
CandidatesStep3(T) ==
    LET candidates == CandidatesStep2(T) IN
    IF Len(candidates) < 6 /\ Len(MeshParents(T)) > Len(candidates)
    THEN MeshParents(T) ELSE candidates

\* variant: the mesh fallback only when nothing was found
pickExplosionNodes_FallbackWhenEmpty(T) ==
    IF Len(CandidatesStep3(T)) < 1 THEN getMeshNodes(T, 1)
    ELSE CandidatesStep3(T)

pickExplosionNodes(T) ==
    IF Len(CandidatesStep3(T)) < 3 THEN getMeshNodes(T, 1)
    ELSE CandidatesStep3(T)

\* buildExplosionTargets up to the selection of the explosion nodes: the
\* picked list, with the mesh list pushed into it when it is empty
SelectExplosionNodes(T) ==
    LET picked == pickExplosionNodes(T) IN
    [done |-> TRUE,
     step1 |-> CandidatesStep1(T),
     step2 |-> CandidatesStep2(T),
     meshParents |-> MeshParents(T),
     step3 |-> CandidatesStep3(T),
     picked |-> picked,
     nodes |-> IF Len(picked) = 0 THEN picked \o getMeshNodes(T, 1) ELSE picked]

\* a scene graph arrives
LoadSceneGraph ==
    /\ root = NoTree
    /\ \E T \in SceneGraphs : root' = T
    /\ UNCHANGED <<explosionNodes, explosionFactor, explosionInput, siblings, overlap, effect>>
    /\ UNCHANGED <<store, refs, lastOp, pre, pre2, features>>

buildExplosionTargets ==
    /\ root # NoTree
    /\ ~explosionNodes.done
    /\ explosionNodes' = SelectExplosionNodes(root)
    /\ UNCHANGED <<root, explosionFactor, explosionInput, siblings, overlap, effect>>
    /\ UNCHANGED <<store, refs, lastOp, pre, pre2, features>>

NextLayout ==
    \/ LoadSceneGraph
    \/ buildExplosionTargets

\* the explosion nodes of every scene graph of at most MaxNodes objects
SpecLayout == Init /\ [][NextLayout]_vars

\* ------------------------------------------------------------------------
\* Sibling offsets (buildSiblingOffsetByIndex)
\*
\* A node descriptor carries its object, the uuid of the object's parent and
\* the object's name.  Strings are sequences of characters, a character being
\* its rank in the collation order: ":" below the digits, digits below letters.
\* ------------------------------------------------------------------------

\* most node descriptors in a list
MaxSiblings == 4

\* parents the listed objects hang under
ParentUuids == {1, 2}

Colon == <<1>>

\* object names: unnamed, "a"
Names == {<<>>, <<7>>}

\* the uuid of object o: the one-digit string of o
uuid(o) == <<1 + o>>

RECURSIVE Arrangements(_)
\* the lists of distinct objects taken from S
Arrangements(S) ==
    {<<>>} \cup UNION {{<<o>> \o rest : rest \in Arrangements(S \ {o})} : o \in S}

\* the node descriptors of the objects in `order`
NodeList(order, parents, names) ==
    [i \in 1..Len(order) |->
        [object |-> order[i], parent |-> parents[order[i]], name |-> names[order[i]]]]

RECURSIVE LocaleCompare(_, _)
\* left.localeCompare(right): negative, zero or positive
LocaleCompare(left, right) ==
    IF left = <<>> /\ right = <<>> THEN 0
    ELSE IF left = <<>> THEN 0 - 1
    ELSE IF right = <<>> THEN 1
    ELSE IF Head(left) < Head(right) THEN 0 - 1
    ELSE IF Head(left) > Head(right) THEN 1
    ELSE LocaleCompare(Tail(left), Tail(right))

\* `${object.name || ""}:${object.uuid}`
SiblingKey(entry) == entry.name \o Colon \o uuid(entry.object)

RECURSIVE InsertByKey(_, _, _)
\* index put into an already sorted list of indices, after its equals
InsertByKey(data, sorted, index) ==
    IF sorted = <<>> THEN <<index>>
    ELSE IF LocaleCompare(SiblingKey(data[index]),
                          SiblingKey(data[Head(sorted)])) < 0
    THEN <<index>> \o sorted
    ELSE <<Head(sorted)>> \o InsertByKey(data, Tail(sorted), index)

RECURSIVE SortByKey(_, _)
\* variant: the indices are left in list order
SortByKey_Unsorted(data, indices) == indices

\* [...indices].sort(by key): a stable sort
SortByKey(data, indices) ==
    IF indices = <<>> THEN <<>>
    ELSE InsertByKey(data,
                     SortByKey(data, SubSeq(indices, 1, Len(indices) - 1)),
                     indices[Len(indices)])

\* siblingIndicesByParent.get(parentUuid)
IndicesOfParent(data, p) ==
    SelectSeq([i \in 1..Len(data) |-> i], LAMBDA i : data[i].parent = p)

\* position of a member in a list
PositionIn(q, x) == CHOOSE i \in 1..Len(q) : q[i] = x

\* the offset stored for the node at `index`, as the fraction num / den;
\* with half = (k - 1) / 2 the code's (orderIndex - half) / max(half, 1) is
\* (2 orderIndex - (k - 1)) / max(k - 1, 2)
OffsetOfIndex(data, index) ==
    LET sorted == SortByKey(data, IndicesOfParent(data, data[index].parent))
        orderIndex == PositionIn(sorted, index) - 1
    IN IF Len(sorted) <= 1
       THEN [num |-> 0, den |-> 1]
       ELSE [num |-> 2 * orderIndex - (Len(sorted) - 1),
             den |-> Max(Len(sorted) - 1, 2)]

buildSiblingOffsetByIndex(data) ==
    [called |-> TRUE,
     offsets |-> [index \in 1..Len(data) |-> OffsetOfIndex(data, index)]]

\* a list of node descriptors is handed over
ReceiveNodeData ==
    /\ nodeData = <<>>
    /\ ~siblingOffsetByIndex.called
    /\ \E order \in Arrangements(1..MaxSiblings) :
          \E parents \in [1..MaxSiblings -> ParentUuids] :
             \E names \in [1..MaxSiblings -> Names] :
                nodeData' = NodeList(order, parents, names)
    /\ UNCHANGED <<siblingOffsetByIndex, explosionFactor, explosionInput, layout, overlap, effect>>
    /\ UNCHANGED <<store, refs, lastOp, pre, pre2, features>>

BuildSiblingOffsets ==
    /\ ~siblingOffsetByIndex.called
    /\ siblingOffsetByIndex' = buildSiblingOffsetByIndex(nodeData)
    /\ UNCHANGED <<nodeData, explosionFactor, explosionInput, layout, overlap, effect>>
    /\ UNCHANGED <<store, refs, lastOp, pre, pre2, features>>

NextSiblings ==
    \/ ReceiveNodeData
    \/ BuildSiblingOffsets

\* sibling offsets of every list of at most MaxSiblings node descriptors
SpecSiblings == Init /\ [][NextSiblings]_vars

\* ------------------------------------------------------------------------
\* Overlap resolution (resolveProjectedOverlaps)
\*
\* The three nested loops, one step per loop test.  Entries are numbered from
\* 0 as in the code.  Whether a pair is closer than its minimum gap depends on
\* the entries' geometry and is drawn from BOOLEAN; what is recorded is which
\* pair was examined in which pass, which entries were written, and in which
\* passes an overlap was found.
\* ------------------------------------------------------------------------

\* most entries in a call
MaxEntries == 4

\* EXPLOSION_CONFIG.overlapIterations
overlapIterations == 3

\* resolveProjectedOverlaps(entries, ...) is called with `length` entries
CallResolve ==
    /\ overlapRun.pc = "idle"
    /\ \E length \in 0..MaxEntries :
          overlapRun' = [overlapRun EXCEPT !.pc = "entry", !.length = length]
    /\ UNCHANGED <<explosionFactor, explosionInput, layout, siblings, effect>>
    /\ UNCHANGED <<store, refs, lastOp, pre, pre2, features>>

\* if (entries.length < 2) return;
ReturnEarly ==
    /\ overlapRun.pc = "entry"
    /\ overlapRun.length < 2
    /\ overlapRun' = [overlapRun EXCEPT !.pc = "done"]
    /\ UNCHANGED <<explosionFactor, explosionInput, layout, siblings, effect>>
    /\ UNCHANGED <<store, refs, lastOp, pre, pre2, features>>

\* let iteration = 0
StartLoop ==
    /\ overlapRun.pc = "entry"
    /\ ~(overlapRun.length < 2)
    /\ overlapRun' = [overlapRun EXCEPT !.pc = "pass", !.iteration = 0]
    /\ UNCHANGED <<explosionFactor, explosionInput, layout, siblings, effect>>
    /\ UNCHANGED <<store, refs, lastOp, pre, pre2, features>>

\* iteration < iterations holds: let leftIndex = 0
EnterPass ==
    /\ overlapRun.pc = "pass"
    /\ overlapRun.iteration < overlapIterations
    /\ overlapRun' = [overlapRun EXCEPT !.pc = "left", !.leftIndex = 0]
    /\ UNCHANGED <<explosionFactor, explosionInput, layout, siblings, effect>>
    /\ UNCHANGED <<store, refs, lastOp, pre, pre2, features>>

\* variant: the loop also ends once a pass found no overlap
ExitLoop_WhenSettled ==
    /\ overlapRun.pc = "pass"
    /\ \/ ~(overlapRun.iteration < overlapIterations)
       \/ /\ overlapRun.iteration > 0
          /\ overlapRun.iteration - 1 \notin overlapRun.overlapInPass
    /\ overlapRun' = [overlapRun EXCEPT !.pc = "done"]
    /\ UNCHANGED <<explosionFactor, explosionInput, layout, siblings, effect>>
    /\ UNCHANGED <<store, refs, lastOp, pre, pre2, features>>

\* iteration < iterations fails: the function returns
ExitLoop ==
    /\ overlapRun.pc = "pass"
    /\ ~(overlapRun.iteration < overlapIterations)
    /\ overlapRun' = [overlapRun EXCEPT !.pc = "done"]
    /\ UNCHANGED <<explosionFactor, explosionInput, layout, siblings, effect>>
    /\ UNCHANGED <<store, refs, lastOp, pre, pre2, features>>

\* leftIndex < entries.length holds: let rightIndex = leftIndex + 1
EnterLeft ==
    /\ overlapRun.pc = "left"
    /\ overlapRun.leftIndex < overlapRun.length
    /\ overlapRun' = [overlapRun EXCEPT !.pc = "right",
                                        !.rightIndex = overlapRun.leftIndex + 1]
    /\ UNCHANGED <<explosionFactor, explosionInput, layout, siblings, effect>>
    /\ UNCHANGED <<store, refs, lastOp, pre, pre2, features>>

\* leftIndex < entries.length fails: iteration += 1
NextPass ==
    /\ overlapRun.pc = "left"
    /\ ~(overlapRun.leftIndex < overlapRun.length)
    /\ overlapRun' = [overlapRun EXCEPT !.pc = "pass",
                                        !.iteration = overlapRun.iteration + 1]
    /\ UNCHANGED <<explosionFactor, explosionInput, layout, siblings, effect>>
    /\ UNCHANGED <<store, refs, lastOp, pre, pre2, features>>

\* rightIndex < entries.length holds: the body for the pair, rightIndex += 1.
\* With distance >= minGap the body continues; otherwise it turns both
\* directions and raises both spread gains.
ExaminePair ==
    /\ overlapRun.pc = "right"
    /\ overlapRun.rightIndex < overlapRun.length
    /\ \E overlapping \in BOOLEAN :
          overlapRun' =
              [overlapRun EXCEPT
                  !.rightIndex = overlapRun.rightIndex + 1,
                  !.examined = Append(overlapRun.examined,
                                      <<overlapRun.iteration, overlapRun.leftIndex,
                                        overlapRun.rightIndex>>),
                  !.changed = IF overlapping
                              THEN overlapRun.changed \cup
                                   {overlapRun.leftIndex, overlapRun.rightIndex}
                              ELSE overlapRun.changed,
                  !.overlapInPass = IF overlapping
                                    THEN overlapRun.overlapInPass \cup
                                         {overlapRun.iteration}
                                    ELSE overlapRun.overlapInPass]
    /\ UNCHANGED <<explosionFactor, explosionInput, layout, siblings, effect>>
    /\ UNCHANGED <<store, refs, lastOp, pre, pre2, features>>

\* rightIndex < entries.length fails: leftIndex += 1
NextLeft ==
    /\ overlapRun.pc = "right"
    /\ ~(overlapRun.rightIndex < overlapRun.length)
    /\ overlapRun' = [overlapRun EXCEPT !.pc = "left",
                                        !.leftIndex = overlapRun.leftIndex + 1]
    /\ UNCHANGED <<explosionFactor, explosionInput, layout, siblings, effect>>
    /\ UNCHANGED <<store, refs, lastOp, pre, pre2, features>>

NextResolve ==
    \/ CallResolve
    \/ ReturnEarly
    \/ StartLoop
    \/ EnterPass
    \/ ExitLoop
    \/ EnterLeft
    \/ NextPass
    \/ ExaminePair
    \/ NextLeft

\* one call of resolveProjectedOverlaps with up to MaxEntries entries; a
\* started call keeps running: the function is synchronous code
SpecResolve == Init /\ [][NextResolve]_vars /\ WF_vars(NextResolve)

\* ------------------------------------------------------------------------
\* The explosion hook (useExplosionEffect)
\*
\* A component renders with a scene and an explosion factor, React runs the
\* effect after the render whose scene differs from the effect's dependency
\* (the previous effect's cleanup first), frames run while the component is
\* mounted, and unmounting runs the cleanup.  Vectors are pairs of integers
\* in hundredths; the factor is in hundredths as in the store.
\* ------------------------------------------------------------------------

\* scenes a render may pass: none, "A" or "B"
SceneProps == Scenes \cup {NoId}

\* explosion factors a render may pass (values of the store's explosionFactor)
FrameFactors ==
    {SafeValue(ToNumber([kind |-> "number", n |-> v])) : v \in {0 - 50, 50, 150}}

\* unit directions a target may get
Directions == {<<1, 0>>, <<0, 0 - 1>>}

\* distance multipliers a target may get
Multipliers == {1, 2}

\* values of maxDistanceWorld
MaxDistances == {0, 3}

\* the objects of a scene in breadth-first order
SceneOrder(s) == IF s = "A" THEN <<"R", "G", "m3", "m1", "m2">> ELSE <<"Q", "k">>

\* the scene as the graph pickExplosionNodes walks
SceneTree(s) ==
    LET order == SceneOrder(s) IN
    [size |-> Len(order),
     parent |-> [i \in 1..Len(order) |->
                    IF parent(order[i]) = NoId THEN 0
                    ELSE PositionIn(order, parent(order[i]))],
     mesh |-> {i \in 1..Len(order) : type(order[i]) = "Mesh"}]

\* buildNodeData for each scene: the explosion nodes that have a parent
NodesWithParent ==
    [s \in Scenes |->
        LET T == SceneTree(s)
            withParent == SelectSeq(SelectExplosionNodes(T).nodes,
                                    LAMBDA o : T.parent[o] # 0)
        IN [i \in 1..Len(withParent) |-> SceneOrder(s)[withParent[i]]]]

TargetObjects(s) == NodesWithParent[s]

\* buildLocalTargets: one entry per node, its position cloned
BuildTargets(s, pos, directions, multipliers) ==
    [i \in 1..Len(TargetObjects(s)) |->
        [object |-> TargetObjects(s)[i],
         initialPosition |-> pos[TargetObjects(s)[i]],
         direction |-> directions[i],
         localDistanceMultiplier |-> multipliers[i]]]

\* the objects of a target list
ObjectsOf(targets) == {targets[i].object : i \in 1..Len(targets)}

\* the last entry of the list for an object
EntryOf(targets, n) ==
    targets[CHOOSE i \in 1..Len(targets) :
               /\ targets[i].object = n
               /\ \A j \in (i + 1)..Len(targets) : targets[j].object # n]

\* v.addScaledVector(w, k)
AddScaledVector(v, w, k) == <<v[1] + w[1] * k, v[2] + w[2] * k>>

\* variant: the positions are left where the last frame put them
CleanupPositions_Keep(targets, pos) == pos

\* the cleanup's forEach: entry.object.position.copy(entry.initialPosition)
CleanupPositions(targets, pos) ==
    [n \in DOMAIN pos |->
        IF n \in ObjectsOf(targets) THEN EntryOf(targets, n).initialPosition
        ELSE pos[n]]

\* variant: the displacement is added to the current position
FramePositions_FromCurrent(targets, maxDistance, factor, pos) ==
    [n \in DOMAIN pos |->
        IF n \in ObjectsOf(targets)
        THEN AddScaledVector(pos[n], EntryOf(targets, n).direction,
                 (maxDistance * factor) * EntryOf(targets, n).localDistanceMultiplier)
        ELSE pos[n]]

\* the frame callback's forEach:
\* position.copy(initialPosition).addScaledVector(direction, localDistance)
FramePositions(targets, maxDistance, factor, pos) ==
    [n \in DOMAIN pos |->
        IF n \in ObjectsOf(targets)
        THEN AddScaledVector(EntryOf(targets, n).initialPosition,
                 EntryOf(targets, n).direction,
                 (maxDistance * factor) * EntryOf(targets, n).localDistanceMultiplier)
        ELSE pos[n]]

\* what a step of the hook found
LogStep(step) ==
    [effectLog EXCEPT !.lastStep = step, !.targets = explosionTargetsRef,
                      !.maxDistance = maxDistanceRef, !.position = position]

\* first render of a component: useRef([]) and useRef(0), effect to run
Mount(scene, factor) ==
    /\ ~hook.mounted
    /\ hook' = [mounted |-> TRUE, scene |-> scene, explosionFactor |-> factor,
                deps |-> "unset", cleanup |-> FALSE, pending |-> TRUE]
    /\ explosionTargetsRef' = <<>>
    /\ maxDistanceRef' = 0
    /\ effectLog' = LogStep("Mount")
    /\ UNCHANGED position
    /\ UNCHANGED <<explosionFactor, explosionInput, layout, siblings, overlap>>
    /\ UNCHANGED <<store, refs, lastOp, pre, pre2, features>>

\* a later render: the effect is to run when the scene differs from the
\* dependency of the effect in place
Rerender(scene, factor) ==
    /\ hook.mounted
    /\ ~hook.pending
    /\ hook' = [hook EXCEPT !.scene = scene, !.explosionFactor = factor,
                            !.pending = (scene # hook.deps)]
    /\ effectLog' = LogStep("Rerender")
    /\ UNCHANGED <<explosionTargetsRef, maxDistanceRef, position>>
    /\ UNCHANGED <<explosionFactor, explosionInput, layout, siblings, overlap>>
    /\ UNCHANGED <<store, refs, lastOp, pre, pre2, features>>

\* the targets the cleanup finds away from their initial position
Displaced(targets, pos) ==
    {n \in ObjectsOf(targets) : pos[n] # EntryOf(targets, n).initialPosition}

\* the log after the cleanup of the effect in place, if it has one
LogTeardown(step) ==
    IF hook.cleanup
    THEN [LogStep(step) EXCEPT
             !.tornDown = effectLog.tornDown \cup ObjectsOf(explosionTargetsRef),
             !.restored = effectLog.restored \cup
                          Displaced(explosionTargetsRef, position)]
    ELSE LogStep(step)

\* React runs the effect: the cleanup of the effect in place, then the body
RunEffect ==
    /\ hook.mounted
    /\ hook.pending
    /\ LET cleaned == IF hook.cleanup
                      THEN CleanupPositions(explosionTargetsRef, position)
                      ELSE position
           keptTargets == IF hook.cleanup THEN <<>> ELSE explosionTargetsRef
           keptDistance == IF hook.cleanup THEN 0 ELSE maxDistanceRef
       IN IF hook.scene = NoId
          THEN /\ explosionTargetsRef' = keptTargets
               /\ maxDistanceRef' = keptDistance
               /\ position' = cleaned
               /\ hook' = [hook EXCEPT !.deps = hook.scene, !.cleanup = FALSE,
                                       !.pending = FALSE]
               /\ effectLog' = LogTeardown("RunEffect")
          ELSE \E directions \in [1..Len(TargetObjects(hook.scene)) -> Directions],
                  multipliers \in [1..Len(TargetObjects(hook.scene)) -> Multipliers],
                  maxDistanceWorld \in MaxDistances :
               LET targets == BuildTargets(hook.scene, cleaned, directions, multipliers)
                   log == LogTeardown("RunEffect")
               IN
               /\ explosionTargetsRef' = targets
               /\ maxDistanceRef' = maxDistanceWorld
               /\ position' = cleaned
               /\ hook' = [hook EXCEPT !.deps = hook.scene, !.cleanup = TRUE,
                                       !.pending = FALSE]
               /\ effectLog' =
                     [log EXCEPT
                         !.tornDown = log.tornDown \ ObjectsOf(targets),
                         !.restored = log.restored \ ObjectsOf(targets),
                         !.captured = [n \in DOMAIN position |->
                                          IF n \in ObjectsOf(targets)
                                          THEN EntryOf(targets, n).initialPosition
                                          ELSE effectLog.captured[n]]]
    /\ UNCHANGED <<explosionFactor, explosionInput, layout, siblings, overlap>>
    /\ UNCHANGED <<store, refs, lastOp, pre, pre2, features>>

\* the useFrame callback of the last render
Frame ==
    /\ hook.mounted
    /\ position' = FramePositions(explosionTargetsRef, maxDistanceRef,
                                  hook.explosionFactor, position)
    /\ effectLog' = LogStep("Frame")
    /\ UNCHANGED <<hook, explosionTargetsRef, maxDistanceRef>>
    /\ UNCHANGED <<explosionFactor, explosionInput, layout, siblings, overlap>>
    /\ UNCHANGED <<store, refs, lastOp, pre, pre2, features>>

\* the component unmounts: the cleanup of the effect in place runs
Unmount ==
    /\ hook.mounted
    /\ ~hook.pending
    /\ hook' = Unmounted
    /\ explosionTargetsRef' = IF hook.cleanup THEN <<>> ELSE explosionTargetsRef
    /\ maxDistanceRef' = IF hook.cleanup THEN 0 ELSE maxDistanceRef
    /\ position' = IF hook.cleanup
                   THEN CleanupPositions(explosionTargetsRef, position)
                   ELSE position
    /\ effectLog' = LogTeardown("Unmount")
    /\ UNCHANGED <<explosionFactor, explosionInput, layout, siblings, overlap>>
    /\ UNCHANGED <<store, refs, lastOp, pre, pre2, features>>

NextEffect ==
    \/ \E scene \in SceneProps, factor \in FrameFactors : Mount(scene, factor)
    \/ \E scene \in SceneProps, factor \in FrameFactors : Rerender(scene, factor)
    \/ RunEffect
    \/ Frame
    \/ Unmount

\* the life of components using the hook, over scenes "A" and "B"
SpecEffect == Init /\ [][NextEffect]_vars

\* ------------------------------------------------------------------------
\* Numbers of the explosion layout.  A real number is a fraction num / den in
\* lowest terms with den > 0.
\* ------------------------------------------------------------------------

Abs(n) == IF n < 0 THEN 0 - n ELSE n

RECURSIVE GCD(_, _)
GCD(a, b) == IF b = 0 THEN a ELSE GCD(b, a % b)

Frac(n, d) ==
    LET g == GCD(Abs(n), d) IN
    IF n = 0 THEN [num |-> 0, den |-> 1] ELSE [num |-> n \div g, den |-> d \div g]

Whole(n) == [num |-> n, den |-> 1]

\* the least common denominator of two fractions
CommonDen(a, b) == (a.den \div GCD(a.den, b.den)) * b.den

Plus(a, b) ==
    LET d == CommonDen(a, b) IN
    Frac(a.num * (d \div a.den) + b.num * (d \div b.den), d)

Minus(a, b) == Plus(a, [num |-> 0 - b.num, den |-> b.den])

\* a * b, cancelling across before multiplying
Times(a, b) ==
    LET g == GCD(Abs(a.num), b.den)
        h == GCD(Abs(b.num), a.den)
    IN IF a.num = 0 \/ b.num = 0 THEN Whole(0)
       ELSE [num |-> (a.num \div g) * (b.num \div h),
             den |-> (a.den \div h) * (b.den \div g)]

\* a / b for b > 0
Over(a, b) == Times(a, [num |-> b.den, den |-> b.num])

\* a <= b
Leq(a, b) ==
    LET d == CommonDen(a, b) IN
    a.num * (d \div a.den) <= b.num * (d \div b.den)

Less(a, b) == ~Leq(b, a)

MinOf(a, b) == IF Leq(a, b) THEN a ELSE b

MaxOf(a, b) == IF Leq(b, a) THEN a ELSE b

AbsOf(a) == [num |-> Abs(a.num), den |-> a.den]

\* EPSILON: a small positive threshold (1e-10 in the code, 1/100 here)
EPSILON == Frac(1, 100)

\* ------------------------------------------------------------------------
\* The overlap resolver on descriptors (resolveProjectedOverlaps)
\*
\* The minimum sampled distance of a pair and its minimum gap depend on the
\* geometry; they are given for each examination.  A descriptor records its
\* crowdingMultiplier, its spreadGain and how often its directionWorld was
\* turned.
\* ------------------------------------------------------------------------

\* EXPLOSION_CONFIG.overlapSpreadBoost
overlapSpreadBoost == Frac(24, 100)

\* (minGap - distance) / minGap
OverlapRatio(distance, minGap) == Over(Minus(minGap, distance), minGap)

\* 1 + overlapRatio * overlapSpreadBoost
SpreadBoost(distance, minGap) ==
    Plus(Whole(1), Times(OverlapRatio(distance, minGap), overlapSpreadBoost))

\* what the body writes to one member of an overlapping pair
Separate(entry, distance, minGap) ==
    [entry EXCEPT !.turns = entry.turns + 1,
                  !.spreadGain = Times(entry.spreadGain, SpreadBoost(distance, minGap))]

\* variant: a pair exactly at the gap is adjusted too
ExaminePairOf_AtGapToo(entries, left, right, distance, minGap) ==
    IF Less(minGap, distance) THEN entries
    ELSE [entries EXCEPT ![left + 1] = Separate(entries[left + 1], distance, minGap),
                         ![right + 1] = Separate(entries[right + 1], distance, minGap)]

\* the body of the inner loop for entries[left] and entries[right]
ExaminePairOf(entries, left, right, distance, minGap) ==
    IF Leq(minGap, distance) THEN entries
    ELSE [entries EXCEPT ![left + 1] = Separate(entries[left + 1], distance, minGap),
                         ![right + 1] = Separate(entries[right + 1], distance, minGap)]

RECURSIVE PairsOfPass(_, _, _, _)
\* the pairs (iteration, left, right), (iteration, left, right + 1), ... of a
\* pass in loop order
PairsOfPass(iteration, left, right, length) ==
    IF ~(left < length) THEN <<>>
    ELSE IF ~(right < length) THEN PairsOfPass(iteration, left + 1, left + 2, length)
    ELSE <<<<iteration, left, right>>>> \o PairsOfPass(iteration, left, right + 1, length)

RECURSIVE ExaminationsFrom(_, _)
ExaminationsFrom(iteration, length) ==
    IF ~(iteration < overlapIterations) THEN <<>>
    ELSE PairsOfPass(iteration, 0, 1, length) \o ExaminationsFrom(iteration + 1, length)

\* most nodes in a call of buildWorldTargets
MaxCrowded == 4

\* most descriptors in a resolver run followed pair by pair
MaxTargets == 2

\* for each number of entries, the examinations of a call in order
ExaminationTable ==
    [length \in 0..(MaxCrowded + MaxTargets) |->
        IF length < 2 THEN <<>> ELSE ExaminationsFrom(0, length)]

Examinations(length) == ExaminationTable[length]

RECURSIVE ResolveFrom(_, _, _, _, _)
\* the examinations todo[k], todo[k + 1], ..., sampled[k] and minGap[k] being
\* the minimum sampled distance and the minimum gap of the k-th
ResolveFrom(entries, todo, k, sampled, minGap) ==
    IF k > Len(todo) THEN entries
    ELSE ResolveFrom(ExaminePairOf(entries, todo[k][2], todo[k][3],
                                   sampled[k], minGap[k]),
                     todo, k + 1, sampled, minGap)

resolveProjectedOverlaps(entries, sampled, minGap) ==
    ResolveFrom(entries, Examinations(Len(entries)), 1, sampled, minGap)

\* ------------------------------------------------------------------------
\* Crowding (buildWorldTargets)
\*
\* The centres of the nodes lie on a line, at whole coordinates listed in
\* rising order (the crowding of a node does not depend on the order of the
\* list); the distance of two nodes is the difference of their coordinates.
\* ------------------------------------------------------------------------

\* coordinates a centre may have
Placements == {0, 3, 9}

\* the radius used for crowding detection
neighborRadius == Whole(4)

\* sibling offsets a node may have: none, -1/2, 1
SiblingOffsets == {[num |-> 0, den |-> 1], [num |-> 0 - 1, den |-> 2],
                   [num |-> 2, den |-> 2]}

\* EXPLOSION_CONFIG.siblingCrowdingFactor
siblingCrowdingFactor == Frac(95, 100)

\* EXPLOSION_CONFIG.crowdingCap
crowdingCap == Frac(35, 10)

\* EXPLOSION_CONFIG.crowdingStrength
crowdingStrength == Frac(5, 10)

\* the minimum gap of every pair in these runs
PairGap == Whole(12)

\* the minimum sampled distance of an overlapping pair in these runs
OverlapDistance == Whole(2)

\* rising lists of n coordinates
RisingLists(n) ==
    {c \in [1..n -> Placements] : \A i \in 1..(n - 1) : c[i] <= c[i + 1]}

\* Math.pow(1 - normalizedDistance, 2) for a neighbour within the radius
Weight(distance) ==
    LET safeDistance == MaxOf(distance, EPSILON)
        normalizedDistance == Over(safeDistance, neighborRadius)
        remainder == Minus(Whole(1), normalizedDistance)
    IN Times(remainder, remainder)

RECURSIVE NeighbourScore(_, _, _)
\* the inner forEach from otherIndex on: the weights of the neighbours
NeighbourScore(centers, index, otherIndex) ==
    IF otherIndex > Len(centers) THEN Whole(0)
    ELSE LET distance == Whole(Abs(centers[index] - centers[otherIndex]))
             rest == NeighbourScore(centers, index, otherIndex + 1)
         IN IF otherIndex = index THEN rest
            ELSE IF Less(neighborRadius, distance) THEN rest
            ELSE Plus(Weight(distance), rest)

\* crowdingScore of the node at index
CrowdingScore(centers, offsets, index) ==
    LET siblingOffset == Frac(offsets[index].num, offsets[index].den) IN
    IF Less(EPSILON, AbsOf(siblingOffset))
    THEN Plus(NeighbourScore(centers, index, 1),
              Times(AbsOf(siblingOffset), siblingCrowdingFactor))
    ELSE NeighbourScore(centers, index, 1)

\* variant: the score is not capped
CrowdingMultiplier_Uncapped(crowdingScore) ==
    Plus(Whole(1), Times(crowdingScore, crowdingStrength))

\* 1 + Math.min(crowdingScore, crowdingCap) * crowdingStrength
CrowdingMultiplier(crowdingScore) ==
    Plus(Whole(1), Times(MinOf(crowdingScore, crowdingCap), crowdingStrength))

\* the descriptors pushed by buildWorldTargets
buildWorldTargets(centers, offsets) ==
    [index \in 1..Len(centers) |->
        LET crowdingScore == CrowdingScore(centers, offsets, index) IN
        [crowdingScore |-> crowdingScore,
         crowdingMultiplier |-> CrowdingMultiplier(crowdingScore),
         spreadGain |-> Whole(1),
         turns |-> 0]]

\* buildWorldTargets is called on up to MaxCrowded nodes
BuildWorldTargets ==
    /\ crowdingRun.stage = "idle"
    /\ \E n \in 0..MaxCrowded :
          \E centers \in RisingLists(n), offsets \in [1..n -> SiblingOffsets] :
             LET worldTargets == buildWorldTargets(centers, offsets) IN
             crowdingRun' = [stage |-> "built", centers |-> centers,
                             offsets |-> offsets, worldTargets |-> worldTargets,
                             built |-> worldTargets]
    /\ UNCHANGED <<base, spreadRun, directionRun, partsLoader, iconClick,
                    canvasView, hierarchyFilter, debounced>>

\* the resolver runs on the descriptors: no pair overlaps, or the pair at
\* examination `hit` of each pass does
ResolveWorldTargets ==
    /\ crowdingRun.stage = "built"
    /\ LET todo == Examinations(Len(crowdingRun.worldTargets)) IN
       \E hit \in 0..(Len(todo) \div overlapIterations) :
          crowdingRun' =
              [crowdingRun EXCEPT
                  !.stage = "resolved",
                  !.worldTargets =
                      resolveProjectedOverlaps(
                          crowdingRun.worldTargets,
                          [k \in 1..Len(todo) |->
                              IF hit > 0 /\ todo[k] = <<todo[k][1], todo[hit][2], todo[hit][3]>>
                              THEN OverlapDistance ELSE PairGap],
                          [k \in 1..Len(todo) |-> PairGap])]
    /\ UNCHANGED <<base, spreadRun, directionRun, partsLoader, iconClick,
                    canvasView, hierarchyFilter, debounced>>

NextCrowding ==
    \/ BuildWorldTargets
    \/ ResolveWorldTargets

\* crowding of up to MaxCrowded nodes on a line, then the resolver
SpecCrowding == Init /\ [][NextCrowding]_vars

\* ------------------------------------------------------------------------
\* Spread gain (resolveProjectedOverlaps followed pair by pair, then
\* buildLocalTargets)
\* ------------------------------------------------------------------------

\* crowding multipliers the descriptors come with
CrowdingValues == {Whole(1), Whole(2)}

\* minimum sampled distances of a pair: touching, overlapping, at the gap,
\* beyond the gap
SampledDistances == {Whole(0), Whole(2), PairGap, Whole(15)}

\* largest absolute component of the parent's world scale
ParentScales == {Whole(1), Whole(2)}

\* the resolver is called on up to MaxTargets descriptors fresh from
\* buildWorldTargets (spreadGain: 1)
StartResolve ==
    /\ spreadRun.stage = "idle"
    /\ \E n \in 0..MaxTargets : \E crowding \in [1..n -> CrowdingValues] :
          spreadRun' = [spreadRun EXCEPT
                           !.stage = "resolving",
                           !.entries = [i \in 1..n |->
                                           [crowdingMultiplier |-> crowding[i],
                                            spreadGain |-> Whole(1),
                                            turns |-> 0]]]
    /\ UNCHANGED <<base, crowdingRun, directionRun, partsLoader, iconClick,
                    canvasView, hierarchyFilter, debounced>>

\* the next examination of the call
ExamineNextPair ==
    /\ spreadRun.stage = "resolving"
    /\ spreadRun.next <= Len(Examinations(Len(spreadRun.entries)))
    /\ LET todo == Examinations(Len(spreadRun.entries))[spreadRun.next] IN
       \E distance \in SampledDistances :
          spreadRun' = [spreadRun EXCEPT
                           !.entries = ExaminePairOf(spreadRun.entries, todo[2], todo[3],
                                                     distance, PairGap),
                           !.next = spreadRun.next + 1,
                           !.last = [examined |-> TRUE, left |-> todo[2],
                                     right |-> todo[3], distance |-> distance,
                                     before |-> spreadRun.entries]]
    /\ UNCHANGED <<base, crowdingRun, directionRun, partsLoader, iconClick,
                    canvasView, hierarchyFilter, debounced>>

\* buildLocalTargets: (1 / parentScaleMax) * (crowdingMultiplier * spreadGain)
LocalDistanceMultiplier(entry, parentScaleMax) ==
    Times(Over(Whole(1), parentScaleMax),
          Times(entry.crowdingMultiplier, entry.spreadGain))

\* the resolver has returned: buildLocalTargets compiles the targets
BuildLocalTargets ==
    /\ spreadRun.stage = "resolving"
    /\ spreadRun.next > Len(Examinations(Len(spreadRun.entries)))
    /\ \E scales \in [1..Len(spreadRun.entries) -> ParentScales] :
          spreadRun' = [spreadRun EXCEPT
                           !.stage = "compiled",
                           !.targets = [i \in 1..Len(spreadRun.entries) |->
                                           [localDistanceMultiplier |->
                                               LocalDistanceMultiplier(
                                                   spreadRun.entries[i], scales[i])]]]
    /\ UNCHANGED <<base, crowdingRun, directionRun, partsLoader, iconClick,
                    canvasView, hierarchyFilter, debounced>>

NextSpread ==
    \/ StartResolve
    \/ ExamineNextPair
    \/ BuildLocalTargets

\* the resolver on up to MaxTargets descriptors, one examination per step
SpecSpread == Init /\ [][NextSpread]_vars

\* ------------------------------------------------------------------------
\* Direction functions (explosionMath)
\*
\* A vector is v / (den * sqrt(root)) for a triple v of integers and positive
\* integers den and root, so that normalising is exact: v / |v| is v with
\* den = 1 and root = v . v.  The vectors of one computation carry the same
\* root, or root 1.
\* ------------------------------------------------------------------------

\* longest seed string
MaxSeedLength == 4

\* character codes of ":" and "a"
SeedChars == {58, 97}

\* the strings of length n over the seed characters
SeedsOfLength(n) == [1..n -> SeedChars]

\* epsilon is 1e-10: the square of 1 / EpsilonRoot
EpsilonRoot == 100000

Vec(x, y, z) == [v |-> <<x, y, z>>, den |-> 1, root |-> 1]

Dot3(a, b) == a[1] * b[1] + a[2] * b[2] + a[3] * b[3]

\* v.lengthSq()
LengthSq(a) == Times(Frac(Dot3(a.v, a.v), a.root), Frac(1, a.den * a.den))

\* lengthSq <= epsilon; a denominator of EpsilonRoot or more is compared
\* after dividing both sides by epsilon
WithinEpsilon(a) ==
    IF a.den < EpsilonRoot
    THEN LengthSq(a).num <= (LengthSq(a).den \div EpsilonRoot) \div EpsilonRoot
    ELSE Leq(Frac(Dot3(a.v, a.v), a.root),
             Times(Frac(a.den, EpsilonRoot), Frac(a.den, EpsilonRoot)))

\* v.normalize(): divideScalar(length || 1), which leaves the zero vector
Normalize(a) ==
    LET g == GCD(GCD(Abs(a.v[1]), Abs(a.v[2])), Abs(a.v[3])) IN
    IF g = 0 THEN a
    ELSE [v |-> <<a.v[1] \div g, a.v[2] \div g, a.v[3] \div g>>, den |-> 1,
          root |-> Dot3(a.v, a.v) \div (g * g)]

\* a.dot(b) as num / (den * sqrt(root))
Dot(a, b) ==
    IF a.root = b.root
    THEN [num |-> Dot3(a.v, b.v), den |-> a.den * b.den * a.root, root |-> 1]
    ELSE [num |-> Dot3(a.v, b.v), den |-> a.den * b.den,
          root |-> IF a.root = 1 THEN b.root ELSE a.root]

\* a.multiplyScalar(c)
MultiplyScalar(a, c) ==
    LET g == GCD(Abs(c.num), c.den) IN
    IF c.num = 0 THEN Vec(0, 0, 0)
    ELSE IF a.root = c.root
    THEN [v |-> <<a.v[1] * (c.num \div g), a.v[2] * (c.num \div g), a.v[3] * (c.num \div g)>>,
          den |-> a.den * (c.den \div g) * a.root, root |-> 1]
    ELSE [v |-> <<a.v[1] * (c.num \div g), a.v[2] * (c.num \div g), a.v[3] * (c.num \div g)>>,
          den |-> a.den * (c.den \div g),
          root |-> IF a.root = 1 THEN c.root ELSE a.root]

\* a.sub(b)
Sub(a, b) ==
    IF b.v = <<0, 0, 0>> THEN a
    ELSE [v |-> <<a.v[1] * b.den - b.v[1] * a.den, a.v[2] * b.den - b.v[2] * a.den,
                  a.v[3] * b.den - b.v[3] * a.den>>,
          den |-> a.den * b.den,
          root |-> IF a.v = <<0, 0, 0>> THEN b.root ELSE a.root]

\* a.cross(axis) for an axis with whole components
Cross(a, axis) ==
    [v |-> <<a.v[2] * axis.v[3] - a.v[3] * axis.v[2],
             a.v[3] * axis.v[1] - a.v[1] * axis.v[3],
             a.v[1] * axis.v[2] - a.v[2] * axis.v[1]>>,
     den |-> a.den, root |-> a.root]

RECURSIVE HashFrom(_, _, _)
\* hash = (hash * 31 + charCode) | 0 over the characters from index on; the
\* 32 bits are kept as two halves of 16 bits
HashFrom(seedString, index, hash) ==
    IF index > Len(seedString) THEN hash
    ELSE LET low == hash.lo * 31 + seedString[index]
             high == hash.hi * 31 + (low \div 65536)
         IN HashFrom(seedString, index + 1,
                     [hi |-> high % 65536, lo |-> low % 65536])

HashOf(seedString) == HashFrom(seedString, 1, [hi |-> 0, lo |-> 0])

\* (byte / 255) * 2 - 1, times 255
RawComponent(byte) == 2 * byte - 255

\* the vector built from the three low bytes of the hash
RawDirection(seedString) ==
    LET hash == HashOf(seedString) IN
    [v |-> <<RawComponent(hash.lo % 256), RawComponent(hash.lo \div 256),
             RawComponent(hash.hi % 256)>>,
     den |-> 255, root |-> 1]

getDeterministicDirection(seedString) ==
    IF WithinEpsilon(RawDirection(seedString)) THEN Vec(1, 0, 0)
    ELSE Normalize(RawDirection(seedString))

\* Math.abs(direction.y) < 0.9
BelowNineTenths(a) ==
    100 * a.v[2] * a.v[2] < 81 * a.den * a.den * a.root

getPerpendicularDirection(direction, seedString) ==
    LET seededDirection == getDeterministicDirection(seedString)
        projection == MultiplyScalar(direction, Dot(seededDirection, direction))
        perpendicular == Sub(seededDirection, projection)
        fallbackAxis == IF BelowNineTenths(direction) THEN Vec(0, 1, 0) ELSE Vec(1, 0, 0)
        second == IF WithinEpsilon(perpendicular) THEN Cross(direction, fallbackAxis)
                  ELSE perpendicular
    IN IF WithinEpsilon(second) THEN Vec(1, 0, 0) ELSE Normalize(second)

\* parent.worldToLocal(origin + direction) - parent.worldToLocal(origin) for a
\* parent whose world matrix scales by `scale`; the inverse of a singular
\* matrix (scale 0) is the zero matrix
LocalStep(scale, worldDirection) ==
    IF scale = 0 THEN Vec(0, 0, 0)
    ELSE [worldDirection EXCEPT !.den = worldDirection.den * scale]

toLocalDirection(scale, worldDirection) ==
    IF WithinEpsilon(LocalStep(scale, worldDirection))
    THEN Normalize(worldDirection)
    ELSE Normalize(LocalStep(scale, worldDirection))

\* directions a caller may pass next to a seed: zero, axes, a vector that is
\* not of unit length, and the seed's own direction and its opposite
DirectionsFor(seedString) ==
    LET seeded == getDeterministicDirection(seedString) IN
    {Vec(0, 0, 0), Vec(1, 0, 0), Vec(0, 1, 0), Vec(0, 2, 0), seeded,
     [seeded EXCEPT !.v = <<0 - seeded.v[1], 0 - seeded.v[2], 0 - seeded.v[3]>>]}

\* world scales of a parent: singular, 1, 2, and one that shrinks a unit step
\* below epsilon
ParentWorldScales == {0, 1, 2, 200000}

CallDeterministicDirection ==
    /\ \E n \in 0..MaxSeedLength : \E seedString \in SeedsOfLength(n) :
          directionRun' = [NoDirection EXCEPT
                              !.fn = "getDeterministicDirection",
                              !.seedString = seedString,
                              !.result = getDeterministicDirection(seedString)]
    /\ UNCHANGED <<base, crowdingRun, spreadRun, partsLoader, iconClick,
                    canvasView, hierarchyFilter, debounced>>

CallPerpendicularDirection ==
    /\ \E n \in 0..MaxSeedLength : \E seedString \in SeedsOfLength(n) :
          \E direction \in DirectionsFor(seedString) :
             directionRun' = [NoDirection EXCEPT
                                 !.fn = "getPerpendicularDirection",
                                 !.seedString = seedString,
                                 !.direction = direction,
                                 !.result = getPerpendicularDirection(direction, seedString)]
    /\ UNCHANGED <<base, crowdingRun, spreadRun, partsLoader, iconClick,
                    canvasView, hierarchyFilter, debounced>>

CallToLocalDirection ==
    /\ \E n \in 0..MaxSeedLength : \E seedString \in SeedsOfLength(n) :
          \E worldDirection \in DirectionsFor(seedString), scale \in ParentWorldScales :
             directionRun' = [NoDirection EXCEPT
                                 !.fn = "toLocalDirection",
                                 !.seedString = seedString,
                                 !.direction = worldDirection,
                                 !.scale = scale,
                                 !.result = toLocalDirection(scale, worldDirection)]
    /\ UNCHANGED <<base, crowdingRun, spreadRun, partsLoader, iconClick,
                    canvasView, hierarchyFilter, debounced>>

NextDirection ==
    \/ CallDeterministicDirection
    \/ CallPerpendicularDirection
    \/ CallToLocalDirection

\* calls of the direction functions on seeds of up to MaxSeedLength characters
SpecDirection == Init /\ [][NextDirection]_vars

\* ------------------------------------------------------------------------
\* Parts data service (loadParts, clearCache)
\*
\* loadParts is async: a call that finds no cache stops at the awaited fetch
\* and resumes when the response arrives, so calls and clearCache interleave.
\* pending counts the calls waiting on their fetch.  settled is the data of
\* the first call that completed since the last clearCache, afterClear tells
\* that clearCache ran and no loadParts call was made since; firstWave tells
\* that every fetch issued since the start, or since a clearCache that found
\* no call waiting, is still awaited; last records the step just taken with
\* the values these had before it.
\* ------------------------------------------------------------------------

\* most calls waiting on a fetch at once
MaxPending == 3

\* data.partsByName of a response: an object, or undefined when the file has
\* no such key
PartsByName == {"partsA", "partsB", "undefined"}

\* if (cachedParts)
Truthy(value) == value \notin {"null", "undefined"}

\* the record of a step, with what was known before it
StepRecord(step, data) ==
    [step |-> step, data |-> data, settled |-> partsLoader.settled,
     afterClear |-> partsLoader.afterClear, pending |-> partsLoader.pending]

\* loadParts() up to its first await: the cached data, or a fetch
LoadParts ==
    /\ IF Truthy(partsLoader.cachedParts)
       THEN partsLoader' = [partsLoader EXCEPT
                               !.afterClear = FALSE,
                               !.last = StepRecord("cached", partsLoader.cachedParts)]
       ELSE /\ partsLoader.pending < MaxPending
            /\ partsLoader' = [partsLoader EXCEPT
                                  !.pending = @ + 1,
                                  !.afterClear = FALSE,
                                  !.last = StepRecord("fetch", "null")]
    /\ UNCHANGED <<base, crowdingRun, spreadRun, directionRun, iconClick,
                    canvasView, hierarchyFilter, debounced>>

\* the fetch and res.json() of a waiting call succeed: the call stores
\* data.partsByName and returns it
FetchResolves ==
    /\ partsLoader.pending > 0
    /\ \E data \in PartsByName :
          partsLoader' = [partsLoader EXCEPT
                             !.cachedParts = data,
                             !.pending = @ - 1,
                             !.settled = IF @ = "none" THEN data ELSE @,
                             !.firstWave = FALSE,
                             !.last = StepRecord("resolved", data)]
    /\ UNCHANGED <<base, crowdingRun, spreadRun, directionRun, iconClick,
                    canvasView, hierarchyFilter, debounced>>

\* the fetch or res.json() of a waiting call throws: logged and rethrown
FetchRejects ==
    /\ partsLoader.pending > 0
    /\ partsLoader' = [partsLoader EXCEPT
                          !.pending = @ - 1,
                          !.firstWave = FALSE,
                          !.last = StepRecord("rejected", "null")]
    /\ UNCHANGED <<base, crowdingRun, spreadRun, directionRun, iconClick,
                    canvasView, hierarchyFilter, debounced>>

ClearCache ==
    /\ partsLoader' = [partsLoader EXCEPT
                          !.cachedParts = "null",
                          !.settled = "none",
                          !.afterClear = TRUE,
                          !.firstWave = (partsLoader.pending = 0),
                          !.last = StepRecord("cleared", "null")]
    /\ UNCHANGED <<base, crowdingRun, spreadRun, directionRun, iconClick,
                    canvasView, hierarchyFilter, debounced>>

NextPartsLoader ==
    \/ LoadParts
    \/ FetchResolves
    \/ FetchRejects
    \/ ClearCache

\* calls of the parts service with up to MaxPending fetches in flight
SpecPartsLoader == Init /\ [][NextPartsLoader]_vars

\* ------------------------------------------------------------------------
\* Visibility icon of a hierarchy row (HierarchyNode)
\*
\* timers is the browser's set of live timeouts, each with the node whose row
\* set it; clickTimeoutRef is each row's ref (0 for null, timer ids start at
\* 1).  paired holds the timers that a second click answered, orphaned the
\* timers that were live when their row unmounted.  A timer expiring is the
\* 200 ms having passed; a click on a live timer is a click within them.
\* ------------------------------------------------------------------------

\* most timeouts set in one behaviour
MaxTimers == 3

TimersOf(n) == {t \in iconClick.timers : t.node = n}

\* clearTimeout(id)
ClearTimeout_Ignored(id) == iconClick.timers

ClearTimeout(id) == {t \in iconClick.timers : t.id # id}

\* toggleVisibility(id) of the store, called from a row
InvokeToggleVisibility(id) ==
    /\ IF id \notin objectMapRef
       THEN UNCHANGED hiddenObjects
       ELSE hiddenObjects' = ToggledHidden(id, hiddenObjects)
    /\ Record("toggleVisibility", id)
    /\ UNCHANGED <<selectedItem, selectedId, selectedIds, isolationMode,
                   individualIsolatedId, refs>>

\* toggleIndividualIsolation(id) of the store, called from a row
InvokeToggleIndividualIsolation(id) ==
    /\ IF individualIsolatedId = id
       THEN /\ hiddenObjects' = {}
            /\ individualIsolatedId' = NoId
       ELSE /\ hiddenObjects' = IndividualIsolationHidden(id)
            /\ individualIsolatedId' = id
    /\ Record("toggleIndividualIsolation", id)
    /\ UNCHANGED <<selectedItem, selectedId, selectedIds, isolationMode, refs>>

\* the row of node n renders for the first time: useRef(null)
MountNode(n) ==
    /\ ~iconClick.mounted[n]
    /\ iconClick' = [iconClick EXCEPT
                        !.mounted[n] = TRUE,
                        !.clickTimeoutRef[n] = 0,
                        !.last = [step |-> "mount", node |-> n, timer |-> 0]]
    /\ UNCHANGED <<base, crowdingRun, spreadRun, directionRun, partsLoader,
                    canvasView, hierarchyFilter, debounced>>

\* handleVisibilityIconClick with a timeout pending: the second click
SecondClick(n) ==
    /\ iconClick.mounted[n]
    /\ iconClick.clickTimeoutRef[n] # 0
    /\ iconClick' = [iconClick EXCEPT
                        !.timers = ClearTimeout(iconClick.clickTimeoutRef[n]),
                        !.clickTimeoutRef[n] = 0,
                        !.paired = @ \cup {iconClick.clickTimeoutRef[n]},
                        !.last = [step |-> "second", node |-> n,
                                  timer |-> iconClick.clickTimeoutRef[n]]]
    /\ InvokeToggleIndividualIsolation(n)
    /\ UNCHANGED <<explosionFactor, explosionInput, layout, siblings, overlap, effect>>
    /\ UNCHANGED <<crowdingRun, spreadRun, directionRun, partsLoader,
                   canvasView, hierarchyFilter, debounced>>

\* handleVisibilityIconClick with no timeout pending: the first click
FirstClick(n) ==
    /\ iconClick.mounted[n]
    /\ iconClick.clickTimeoutRef[n] = 0
    /\ iconClick.nextTimer <= MaxTimers
    /\ iconClick' = [iconClick EXCEPT
                        !.timers = @ \cup {[id |-> iconClick.nextTimer, node |-> n]},
                        !.clickTimeoutRef[n] = iconClick.nextTimer,
                        !.nextTimer = @ + 1,
                        !.last = [step |-> "first", node |-> n,
                                  timer |-> iconClick.nextTimer]]
    /\ UNCHANGED <<base, crowdingRun, spreadRun, directionRun, partsLoader,
                    canvasView, hierarchyFilter, debounced>>

\* the callback of a live timeout runs
TimerExpires ==
    /\ \E t \in iconClick.timers :
          /\ iconClick' = [iconClick EXCEPT
                              !.timers = @ \ {t},
                              !.clickTimeoutRef[t.node] = 0,
                              !.last = [step |-> "expired", node |-> t.node,
                                        timer |-> t.id]]
          /\ InvokeToggleVisibility(t.node)
    /\ UNCHANGED <<explosionFactor, explosionInput, layout, siblings, overlap, effect>>
    /\ UNCHANGED <<crowdingRun, spreadRun, directionRun, partsLoader,
                   canvasView, hierarchyFilter, debounced>>

\* the cleanup of the row's effect: clearTimeout of a pending timeout
CleanupTimers_None(n) == iconClick.timers

CleanupTimers(n) ==
    IF iconClick.clickTimeoutRef[n] # 0
    THEN ClearTimeout(iconClick.clickTimeoutRef[n])
    ELSE iconClick.timers

\* the row of node n unmounts
UnmountNode(n) ==
    /\ iconClick.mounted[n]
    /\ iconClick' = [iconClick EXCEPT
                        !.mounted[n] = FALSE,
                        !.timers = CleanupTimers(n),
                        !.clickTimeoutRef[n] = 0,
                        !.orphaned = @ \cup {t.id : t \in TimersOf(n)},
                        !.last = [step |-> "unmount", node |-> n,
                                  timer |-> iconClick.clickTimeoutRef[n]]]
    /\ UNCHANGED <<base, crowdingRun, spreadRun, directionRun, partsLoader,
                    canvasView, hierarchyFilter, debounced>>

NextIconClick ==
    \/ \E s \in LoadedScenes : setObjectMap(s)
    \/ \E n \in IconNodes : MountNode(n)
    \/ \E n \in IconNodes : FirstClick(n)
    \/ \E n \in IconNodes : SecondClick(n)
    \/ TimerExpires
    \/ \E n \in IconNodes : UnmountNode(n)

\* rows mounting, clicked and unmounting, with up to MaxTimers timeouts set
SpecIconClick == Init /\ [][NextIconClick]_vars

\* ------------------------------------------------------------------------
\* Canvas (InteractiveModel): visibility sync and pointer handlers
\*
\* canvasView.isHidden is the set of scene objects whose userData.isHidden is
\* true (obj.visible is its negation); lastHoveredRef is the ref's object.
\* The sync effect may run after any render: its dependencies include the
\* props onHover and the hidden set, which every write replaces.  last
\* records the component's last step: the object a click picked and how many
\* intersections it passed over, whether the sync cleared the selection,
\* which selected ids it left hidden and which hovered object it let go.
\* ------------------------------------------------------------------------

\* most intersections of one pointer event
MaxHits == 2

\* the scene rendered by the component
CanvasScene == "A"

\* the meshes that lie under the pointer
HitObjects == {"m2", "m3"}

\* e.intersections, nearest first
Intersections(n) == [1..n -> HitObjects]

RECURSIVE FirstVisibleFrom(_, _)
\* the loop of findFirstVisibleObject from position i on
FirstVisibleFrom(intersections, i) ==
    IF i > Len(intersections) THEN NoId
    ELSE IF intersections[i] \notin canvasView.isHidden THEN intersections[i]
    ELSE FirstVisibleFrom(intersections, i + 1)

\* variant: the nearest object, hidden or not
findFirstVisibleObject_Nearest(intersections) ==
    IF Len(intersections) = 0 THEN NoId ELSE intersections[1]

findFirstVisibleObject(intersections) ==
    IF Len(intersections) = 0 THEN NoId ELSE FirstVisibleFrom(intersections, 1)

\* the record of a step of the component
CanvasStep(step, picked, skipped) ==
    [step |-> step, picked |-> picked, skipped |-> skipped, cleared |-> FALSE,
     stillHidden |-> {}, unhovered |-> NoId]

\* how many intersections come before the object picked
SkippedBefore(intersections) ==
    Cardinality({i \in 1..Len(intersections) :
                    \A j \in 1..i : intersections[j] \in canvasView.isHidden})

\* setSelectedObject(obj) of the store, called from the component
InvokeSetSelectedObject(obj) ==
    /\ IF obj = NoId
       THEN /\ selectedItem' = NoId
            /\ selectedId' = NoId
            /\ selectedIds' = <<>>
       ELSE /\ selectedItem' = DisplayName(obj)
            /\ selectedId' = obj
            /\ selectedIds' = <<obj>>
    /\ Record("setSelectedObject", obj)
    /\ UNCHANGED <<hiddenObjects, isolationMode, individualIsolatedId, refs>>

\* onHover(arg) of the parent: the view after the call, which keeps the
\* argument and whether the call before it passed the same one
onHover(view, arg) ==
    [view EXCEPT !.onHoverArg = arg,
                 !.onHoverRepeated = @ \/ view.onHoverArg = arg]

\* variant: the parent is notified whether or not an object was hovered
clearHover_Unguarded(view) ==
    onHover([view EXCEPT !.lastHoveredRef = NoId], NoId)

clearHover(view) ==
    IF view.lastHoveredRef # NoId
    THEN onHover([view EXCEPT !.lastHoveredRef = NoId], NoId)
    ELSE view

\* state.getObjectsByIds([state.selectedIds[0]])[0], or NoId for null
SelectedObjRef ==
    IF Len(selectedIds) > 0 /\ selectedIds[1] \in objectMapRef THEN selectedIds[1]
    ELSE NoId

\* objects the sync effect flags: obj.isMesh || obj.isGroup
Flagged == {o \in SceneMap(CanvasScene) : type(o) \in {"Mesh", "Group"}}

\* the visibility sync effect
SyncVisibility ==
    /\ canvasView' = [(IF canvasView.lastHoveredRef \in Flagged \cap hiddenObjects
                        THEN onHover([canvasView EXCEPT !.lastHoveredRef = NoId], NoId)
                        ELSE canvasView) EXCEPT
                         !.isHidden = (@ \ Flagged) \cup (Flagged \cap hiddenObjects),
                         !.last = [CanvasStep("sync", NoId, 0) EXCEPT
                                      !.cleared = SelectedObjRef \in Flagged \cap hiddenObjects,
                                      !.unhovered =
                                          IF canvasView.lastHoveredRef \in Flagged \cap hiddenObjects
                                          THEN canvasView.lastHoveredRef ELSE NoId,
                                      !.stillHidden =
                                          IF SelectedObjRef \in Flagged \cap hiddenObjects
                                          THEN {}
                                          ELSE ({selectedId} \cup Range(selectedIds))
                                                  \cap hiddenObjects]]
    /\ IF SelectedObjRef \in Flagged \cap hiddenObjects
       THEN InvokeSetSelectedObject(NoId)
       ELSE UNCHANGED <<store, refs, lastOp, pre, pre2>>
    /\ UNCHANGED <<explosionFactor, explosionInput, layout, siblings, overlap, effect>>
    /\ UNCHANGED <<crowdingRun, spreadRun, directionRun, partsLoader,
                   iconClick, hierarchyFilter, debounced>>

\* handleClick
HandleClick(intersections) ==
    /\ IF findFirstVisibleObject(intersections) = NoId
       THEN /\ canvasView' = [canvasView EXCEPT
                                 !.last = CanvasStep("click", NoId,
                                                     SkippedBefore(intersections))]
            /\ UNCHANGED <<store, refs, lastOp, pre, pre2>>
       ELSE /\ canvasView' = [clearHover(canvasView) EXCEPT
                                 !.last = CanvasStep("click",
                                                     findFirstVisibleObject(intersections),
                                                     SkippedBefore(intersections))]
            /\ InvokeSetSelectedObject(findFirstVisibleObject(intersections))
    /\ UNCHANGED <<explosionFactor, explosionInput, layout, siblings, overlap, effect>>
    /\ UNCHANGED <<crowdingRun, spreadRun, directionRun, partsLoader,
                   iconClick, hierarchyFilter, debounced>>

\* handlePointerOver
HandlePointerOver(intersections) ==
    /\ findFirstVisibleObject(intersections) # NoId
    /\ findFirstVisibleObject(intersections) # canvasView.lastHoveredRef
    /\ canvasView' = [onHover([canvasView EXCEPT
                                    !.lastHoveredRef =
                                        findFirstVisibleObject(intersections)],
                                findFirstVisibleObject(intersections)) EXCEPT
                         !.last = CanvasStep("over", NoId, 0)]
    /\ UNCHANGED <<base, crowdingRun, spreadRun, directionRun, partsLoader,
                    iconClick, hierarchyFilter, debounced>>

\* handlePointerMissed
HandlePointerMissed ==
    /\ canvasView' = [clearHover(canvasView) EXCEPT
                         !.last = CanvasStep("missed", NoId, 0)]
    /\ InvokeSetSelectedObject(NoId)
    /\ UNCHANGED <<explosionFactor, explosionInput, layout, siblings, overlap, effect>>
    /\ UNCHANGED <<crowdingRun, spreadRun, directionRun, partsLoader,
                   iconClick, hierarchyFilter, debounced>>

\* handlePointerOut
HandlePointerOut(intersections) ==
    /\ canvasView' =
           [(IF findFirstVisibleObject(intersections) = NoId
             THEN clearHover(canvasView)
             ELSE IF findFirstVisibleObject(intersections) # canvasView.lastHoveredRef
             THEN onHover([canvasView EXCEPT
                              !.lastHoveredRef =
                                  findFirstVisibleObject(intersections)],
                          findFirstVisibleObject(intersections))
             ELSE canvasView) EXCEPT
               !.last = CanvasStep("out", NoId, 0)]
    /\ UNCHANGED <<base, crowdingRun, spreadRun, directionRun, partsLoader,
                    iconClick, hierarchyFilter, debounced>>

\* ids the hierarchy panel passes to the store while the canvas is watched
PanelIds == {"G", "m2"}

NextCanvas ==
    \/ \E s \in LoadedScenes : setObjectMap(s)
    \/ \E id \in PanelIds : setSelectedById(id)
    \/ \E id \in PanelIds : toggleVisibility(id)
    \/ \E id \in PanelIds : toggleIndividualIsolation(id)
    \/ SyncVisibility
    \/ \E n \in 0..MaxHits : \E intersections \in Intersections(n) : HandleClick(intersections)
    \/ \E n \in 0..MaxHits : \E intersections \in Intersections(n) : HandlePointerOver(intersections)
    \/ HandlePointerMissed

\* the store's selection and visibility operations with the canvas' effect
\* and pointer handlers, for events of up to MaxHits intersections
SpecCanvas == Init /\ [][NextCanvas]_vars

\* ids whose visibility the panel toggles while the pointer moves
HoverToggleIds == {"G", "m3"}

NextHover ==
    \/ \E s \in LoadedScenes : setObjectMap(s)
    \/ \E id \in HoverToggleIds : toggleVisibility(id)
    \/ SyncVisibility
    \/ \E n \in 0..MaxHits : \E intersections \in Intersections(n) : HandleClick(intersections)
    \/ \E n \in 0..MaxHits : \E intersections \in Intersections(n) : HandlePointerOver(intersections)
    \/ \E n \in 0..MaxHits : \E intersections \in Intersections(n) : HandlePointerOut(intersections)
    \/ HandlePointerMissed

\* the pointer handlers and the sync effect while the hidden set changes
SpecHover == Init /\ [][NextHover]_vars

\* ------------------------------------------------------------------------
\* Hierarchy filter (buildHierarchy, useHierarchyFilter)
\*
\* Strings are sequences of character codes, so that trim, toLowerCase and
\* includes are computed.  A tree node is [id, children], children a sequence
\* of tree nodes; a pruned node (null, removed by filter(Boolean)) is the
\* empty sequence and a kept node a sequence of one.
\* ------------------------------------------------------------------------

\* longest search text
MaxSearchLength == 2

\* the characters " ", "H", "o", "t" a search text is typed from
SearchChars == {32, 72, 111, 116}

SearchTexts(n) == [1..n -> SearchChars]

\* obj.name || obj.type || "(unnamed)" of the objects of the scene, as
\* character codes: "Housing", "Rotor", "Mesh" (unnamed), "Bolt", "Scene"
HierarchyName(n) ==
    CASE n = "G"  -> <<72, 111, 117, 115, 105, 110, 103>>
      [] n = "m1" -> <<82, 111, 116, 111, 114>>
      [] n = "m2" -> <<77, 101, 115, 104>>
      [] n = "m3" -> <<66, 111, 108, 116>>
      [] OTHER    -> <<83, 99, 101, 110, 101>>

RECURSIVE toNodes(_)
\* buildHierarchy's toNode over a list of objects: the renderable ones
toNodes(objs) ==
    IF objs = <<>> THEN <<>>
    ELSE LET obj == Head(objs)
             kids == toNodes(children(obj))
         IN (IF type(obj) = "Mesh" \/ Len(kids) > 0
             THEN <<[id |-> obj, children |-> kids]>>
             ELSE <<>>) \o toNodes(Tail(objs))

buildHierarchy(s) == toNodes(children(SceneRoot(s)))

\* state.items
Items == buildHierarchy(CanvasScene)

\* String.prototype.toLowerCase on character codes
ToLowerCase(text) ==
    [i \in 1..Len(text) |-> IF text[i] \in 65..90 THEN text[i] + 32 ELSE text[i]]

RECURSIVE Trim(_)
\* String.prototype.trim
Trim(text) ==
    IF text = <<>> THEN text
    ELSE IF Head(text) = 32 THEN Trim(Tail(text))
    ELSE IF text[Len(text)] = 32 THEN Trim(SubSeq(text, 1, Len(text) - 1))
    ELSE text

\* String.prototype.includes
Includes(text, term) ==
    \E k \in 0..(Len(text) - Len(term)) :
        \A i \in 1..Len(term) : text[k + i] = term[i]

\* (debouncedSearch || "").trim().toLowerCase()
SearchTerm(debouncedSearch) == ToLowerCase(Trim(debouncedSearch))

isFilteringActive(debouncedSearch, onlyVisible) ==
    SearchTerm(debouncedSearch) # <<>> \/ onlyVisible

nodeMatches(node, debouncedSearch, onlyVisible) ==
    /\ isFilteringActive(debouncedSearch, onlyVisible)
    /\ \/ SearchTerm(debouncedSearch) = <<>>
       \/ Includes(ToLowerCase(HierarchyName(node.id)), SearchTerm(debouncedSearch))
    /\ ~onlyVisible \/ isObjectVisible(node.id)

RECURSIVE filterNodes(_, _, _)
\* nodes.map(filterNode).filter(Boolean)
filterNodes(nodes, debouncedSearch, onlyVisible) ==
    IF nodes = <<>> THEN <<>>
    ELSE LET node == Head(nodes)
             kids == filterNodes(node.children, debouncedSearch, onlyVisible)
         IN (IF nodeMatches(node, debouncedSearch, onlyVisible) \/ Len(kids) > 0
             THEN <<[node EXCEPT !.children = kids]>>
             ELSE <<>>)
            \o filterNodes(Tail(nodes), debouncedSearch, onlyVisible)

RECURSIVE MatchOrder(_, _, _)
\* the matching nodes in the order filterNode tests them: children first
MatchOrder(nodes, debouncedSearch, onlyVisible) ==
    IF nodes = <<>> THEN <<>>
    ELSE LET node == Head(nodes) IN
         MatchOrder(node.children, debouncedSearch, onlyVisible)
            \o (IF nodeMatches(node, debouncedSearch, onlyVisible) THEN <<node.id>> ELSE <<>>)
            \o MatchOrder(Tail(nodes), debouncedSearch, onlyVisible)

\* the value of the useMemo for the given filter inputs
FilterResult(debouncedSearch, onlyVisible) ==
    IF ~isFilteringActive(debouncedSearch, onlyVisible)
    THEN [debouncedSearch |-> debouncedSearch, onlyVisible |-> onlyVisible,
          computed |-> TRUE, seenHidden |-> hiddenObjects,
          filteredItems |-> Items, matchedIds |-> {}, firstMatchId |-> NoId]
    ELSE LET order == MatchOrder(Items, debouncedSearch, onlyVisible) IN
         [debouncedSearch |-> debouncedSearch, onlyVisible |-> onlyVisible,
          computed |-> TRUE, seenHidden |-> hiddenObjects,
          filteredItems |-> filterNodes(Items, debouncedSearch, onlyVisible),
          matchedIds |-> Range(order),
          firstMatchId |-> IF order = <<>> THEN NoId ELSE order[1]]

\* the debounced search text changes and the memo is recomputed
ChangeDebouncedSearch ==
    /\ \E n \in 0..MaxSearchLength : \E text \in SearchTexts(n) :
          hierarchyFilter' = FilterResult(text, hierarchyFilter.onlyVisible)
    /\ UNCHANGED <<base, crowdingRun, spreadRun, directionRun, partsLoader,
                    iconClick, canvasView, debounced>>

\* setOnlyVisible and the recomputation of the memo
SetOnlyVisible ==
    /\ \E flag \in BOOLEAN :
          hierarchyFilter' = FilterResult(hierarchyFilter.debouncedSearch, flag)
    /\ UNCHANGED <<base, crowdingRun, spreadRun, directionRun, partsLoader,
                    iconClick, canvasView, debounced>>

\* ids whose visibility the panel toggles while the filter is used
FilterToggleIds == {"G", "m3"}

NextFilter ==
    \/ \E s \in LoadedScenes : setObjectMap(s)
    \/ \E id \in FilterToggleIds : toggleVisibility(id)
    \/ ChangeDebouncedSearch
    \/ SetOnlyVisible

\* the hierarchy filter over the loaded scene, for search texts of up to
\* MaxSearchLength characters
SpecFilter == Init /\ [][NextFilter]_vars

\* ------------------------------------------------------------------------
\* useDebouncedValue
\*
\* Time passes in ticks.  A timeout is [value, delay, left]: the value its
\* callback will set, the delay it was set with and the ticks left before
\* it may run.  heldFor counts the ticks since the input last changed (up to
\* MaxDelay), cancelled tells that a change cleared a pending timeout.  The
\* search box changes the value in an input event, whose render runs the
\* effect's cleanup and the new effect before any timer can run: one step.
\* ------------------------------------------------------------------------

\* longest delay, in ticks
MaxDelay == 2

\* values of the input
InputValues == {"", "a", "ab"}

Delays == 1..MaxDelay

\* the effect's cleanup: clearTimeout(t), t being the timeout the effect set
\* for the value and delay of its render
ClearedTimers_None == debounced.timers

ClearedTimers ==
    {t \in debounced.timers : t.value # debounced.value \/ t.delay # debounced.delay}

\* the effect: setTimeout(() => setDebounced(value), delay)
StartedTimer(value, delay) == [value |-> value, delay |-> delay, left |-> delay]

DebouncedStep(step) ==
    [step |-> step, emitted |-> "", input |-> debounced.value,
     heldFor |-> debounced.heldFor, delay |-> debounced.delay,
     mounted |-> debounced.mounted]

\* first render: useState(value), then the effect
MountDebounced ==
    /\ ~debounced.mounted
    /\ \E value \in InputValues, delay \in Delays :
          debounced' = [debounced EXCEPT
                           !.mounted = TRUE, !.value = value, !.delay = delay,
                           !.debounced = value,
                           !.timers = @ \cup {StartedTimer(value, delay)},
                           !.heldFor = 0,
                           !.last = DebouncedStep("mount")]
    /\ UNCHANGED <<base, crowdingRun, spreadRun, directionRun, partsLoader,
                    iconClick, canvasView, hierarchyFilter>>

\* a render with another value: cleanup, then the effect
ChangeValue ==
    /\ debounced.mounted
    /\ \E value \in InputValues \ {debounced.value} :
          debounced' = [debounced EXCEPT
                           !.value = value,
                           !.timers = ClearedTimers \cup {StartedTimer(value, debounced.delay)},
                           !.heldFor = 0,
                           !.cancelled = @ \/ debounced.timers # {},
                           !.last = DebouncedStep("change")]
    /\ UNCHANGED <<base, crowdingRun, spreadRun, directionRun, partsLoader,
                    iconClick, canvasView, hierarchyFilter>>

\* a render with another delay: cleanup, then the effect
ChangeDelay ==
    /\ debounced.mounted
    /\ \E delay \in Delays \ {debounced.delay} :
          debounced' = [debounced EXCEPT
                           !.delay = delay,
                           !.timers = ClearedTimers \cup {StartedTimer(debounced.value, delay)},
                           !.last = DebouncedStep("delay")]
    /\ UNCHANGED <<base, crowdingRun, spreadRun, directionRun, partsLoader,
                    iconClick, canvasView, hierarchyFilter>>

\* a tick of time
Tick ==
    /\ debounced.mounted \/ debounced.timers # {}
    /\ debounced' = [debounced EXCEPT
                        !.timers = {[t EXCEPT !.left = IF @ > 0 THEN @ - 1 ELSE 0] : t \in @},
                        !.heldFor = IF @ < MaxDelay THEN @ + 1 ELSE @,
                        !.last = DebouncedStep("tick")]
    /\ UNCHANGED <<base, crowdingRun, spreadRun, directionRun, partsLoader,
                    iconClick, canvasView, hierarchyFilter>>

\* a timeout whose delay has passed runs: setDebounced(value)
TimeoutRuns ==
    /\ \E t \in debounced.timers :
          /\ t.left = 0
          /\ debounced' = [debounced EXCEPT
                              !.timers = @ \ {t},
                              !.debounced = t.value,
                              !.last = [DebouncedStep("emit") EXCEPT
                                           !.emitted = t.value, !.delay = t.delay]]
    /\ UNCHANGED <<base, crowdingRun, spreadRun, directionRun, partsLoader,
                    iconClick, canvasView, hierarchyFilter>>

\* unmount: the effect's cleanup
UnmountDebounced ==
    /\ debounced.mounted
    /\ debounced' = [debounced EXCEPT
                        !.mounted = FALSE,
                        !.timers = ClearedTimers,
                        !.last = DebouncedStep("unmount")]
    /\ UNCHANGED <<base, crowdingRun, spreadRun, directionRun, partsLoader,
                    iconClick, canvasView, hierarchyFilter>>

NextDebounced ==
    \/ MountDebounced
    \/ ChangeValue
    \/ ChangeDelay
    \/ Tick
    \/ TimeoutRuns
    \/ UnmountDebounced

\* a component using useDebouncedValue with delays of up to MaxDelay ticks
SpecDebounced == Init /\ [][NextDebounced]_vars

\* ------------------------------------------------------------------------
\* Scene reload: InteractiveModel calls setObjectMap again with another map
\* ------------------------------------------------------------------------

\* uuids the panels and the canvas pass: of the first scene and of the second
ReloadIds == {"G", "m3", "k"}

NextReload ==
    \/ \E s \in Scenes : setObjectMap(s)
    \/ \E id \in ReloadIds : toggleVisibility(id)
    \/ toggleIsolationMode
    \/ showAll
    \/ \E id \in ReloadIds : toggleIndividualIsolation(id)
    \/ \E obj \in objectMapRef \cap ReloadIds : setSelectedObject(obj)
    \/ \E id \in ReloadIds : setSelectedById(id)
    \/ clearSelection

\* the store operations with either scene loaded, and loaded again
SpecReload == Init /\ [][NextReload]_vars

\* ------------------------------------------------------------------------
\* The whole store: selection, visibility, isolation and explosion together
\* ------------------------------------------------------------------------

\* uuids the panels pass
SliceIds == {"G", "m3"}

\* values the slider passes: inside the range, above it, not a number
SliceInputs ==
    {[kind |-> "number", n |-> Unit \div 2],
     [kind |-> "number", n |-> Unit + InputSpan],
     [kind |-> "NaN", n |-> 0]}

NextSlices ==
    \/ \E s \in LoadedScenes : setObjectMap(s)
    \/ \E id \in SliceIds : toggleVisibility(id)
    \/ toggleIsolationMode
    \/ showAll
    \/ \E id \in SliceIds : toggleIndividualIsolation(id)
    \/ \E obj \in objectMapRef \cap SliceIds : setSelectedObject(obj)
    \/ \E id \in SliceIds : setSelectedById(id)
    \/ clearSelection
    \/ \E value \in SliceInputs : setExplosionFactor(value)
    \/ resetExplosion

\* every operation of the store that writes a field
SpecSlices == Init /\ [][NextSlices]_vars

\* ------------------------------------------------------------------------
\* Properties
\* ------------------------------------------------------------------------

\* d is a proper descendant of a (by the parent chain)
IsDescendant(d, a) == a \in Ancestors(d)

\* the set is closed under "descendant of"
DescendantClosed(hidden) ==
    \A n \in hidden : \A d \in AllIds : IsDescendant(d, n) => d \in hidden

\* the subtree of id is entirely inside or entirely outside the set
UniformSubtree(id, hidden) ==
    Subtree(id) \subseteq hidden \/ Subtree(id) \cap hidden = {}

\* C1: at most one isolation mode is active: isolationMode and a non-null
\* individualIsolatedId never hold together.
C1_OneIsolationMode ==
    ~(isolationMode /\ individualIsolatedId # NoId)

\* C2: once an object map is set, selectedIds is the cached descendant-mesh
\* list of selectedId, and is empty when selectedId is null.
C2_SelectedIdsAreCacheEntry ==
    objectMapRef # {} =>
        IF selectedId # NoId
        THEN selectedIds = getDescendantMeshIds(selectedId)
        ELSE selectedIds = <<>>

\* C3: hiddenObjects is closed under descendants: with a node, every
\* descendant of the node is in the set.
C3_HiddenClosedUnderDescendants ==
    DescendantClosed(hiddenObjects)

\* C4 (as claimed): two successive toggleVisibility(id) calls return
\* hiddenObjects to the set it was before the first call, whatever part of the
\* subtree of id was hidden.
C4_DoubleToggleRestores ==
    (pre2.same /\ lastOp.op = "toggleVisibility") =>
        hiddenObjects = pre2.hiddenObjects

\* C4 (amended): two successive toggleVisibility(id) calls on an id of the
\* object map starting from the hidden set H end with H plus the whole subtree
\* of id when id was in H, and with H minus the whole subtree otherwise; so H
\* is restored exactly when the subtree of id was entirely hidden or entirely
\* visible to begin with.
C4_DoubleToggleUniform ==
    (pre2.same /\ lastOp.op = "toggleVisibility"
       /\ lastOp.arg \in objectMapRef) =>
        /\ hiddenObjects =
             IF lastOp.arg \in pre2.hiddenObjects
             THEN pre2.hiddenObjects \cup
                    {d \in AllIds : d = lastOp.arg \/ IsDescendant(d, lastOp.arg)}
             ELSE pre2.hiddenObjects \
                    {d \in AllIds : d = lastOp.arg \/ IsDescendant(d, lastOp.arg)}
        /\ (hiddenObjects = pre2.hiddenObjects
              <=> UniformSubtree(lastOp.arg, pre2.hiddenObjects))

\* a second toggleVisibility of a group has just restored a uniform subtree
C4_Witness ==
    /\ pre2.same /\ lastOp.op = "toggleVisibility"
    /\ lastOp.arg \in objectMapRef
    /\ Cardinality(Subtree(lastOp.arg)) > 1
    /\ pre2.hiddenObjects # {}
    /\ hiddenObjects = pre2.hiddenObjects
    /\ hiddenObjects # pre.hiddenObjects

\* C5: right after toggleVisibility(id) for an id of the object map, every
\* descendant of id is as visible as id, and the visibility of id is the
\* negation of what it was before the call.
C5_ToggleFlipsWholeSubtree ==
    (lastOp.op = "toggleVisibility" /\ lastOp.arg \in objectMapRef) =>
        /\ \A d \in AllIds :
             IsDescendant(d, lastOp.arg) =>
                 isObjectVisible(d) = isObjectVisible(lastOp.arg)
        /\ isObjectVisible(lastOp.arg) = (lastOp.arg \in pre.hiddenObjects)

\* toggleVisibility has just acted on a group whose subtree was partly hidden
C5_Witness ==
    /\ lastOp.op = "toggleVisibility"
    /\ lastOp.arg \in objectMapRef
    /\ ~UniformSubtree(lastOp.arg, pre.hiddenObjects)
    /\ UniformSubtree(lastOp.arg, hiddenObjects)

\* toggleIsolationMode was called with nothing selected and no isolation
NoSelectionToggle ==
    /\ lastOp.op = "toggleIsolationMode"
    /\ pre.selectedId = NoId
    /\ ~pre.isolationMode
    /\ pre.individualIsolatedId = NoId

\* C6 (as claimed): toggleIsolationMode with nothing selected and no isolation
\* active changes nothing: hiddenObjects, isolationMode and
\* individualIsolatedId are as before.
C6_NoSelectionNoOp ==
    NoSelectionToggle =>
        /\ hiddenObjects = pre.hiddenObjects
        /\ isolationMode = FALSE
        /\ individualIsolatedId = NoId

\* C6 (amended): toggleIsolationMode with nothing selected and no isolation
\* active leaves isolationMode false, individualIsolatedId null and the
\* selection untouched, and empties hiddenObjects (so it changes nothing only
\* when the set was already empty).
C6_NoSelectionShowsAll ==
    NoSelectionToggle =>
        /\ hiddenObjects = {}
        /\ isolationMode = FALSE
        /\ individualIsolatedId = NoId
        /\ selectedId = NoId /\ selectedIds = <<>> /\ selectedItem = NoId

\* the call found nodes hidden by toggleVisibility and has shown them again
C6_Witness ==
    /\ NoSelectionToggle
    /\ pre.hiddenObjects # {}
    /\ hiddenObjects = {}

\* everything in the map except s, its descendants and its ancestors
IsolationComplement(s) ==
    {n \in objectMapRef :
        ~(n = s \/ IsDescendant(n, s) \/ IsDescendant(s, n))}

\* C7: entering isolation recomputes the hidden set from scratch: after
\* toggleIsolationMode with isolationMode false and a selection s in the map,
\* or toggleIndividualIsolation(s) with s in the map and not already isolated,
\* hiddenObjects is the map minus s, its descendants and its ancestors.
C7_IsolationRecomputesHidden ==
    /\ (lastOp.op = "toggleIsolationMode" /\ ~pre.isolationMode
          /\ pre.selectedId \in objectMapRef) =>
           hiddenObjects = IsolationComplement(pre.selectedId)
    /\ (lastOp.op = "toggleIndividualIsolation"
          /\ lastOp.arg \in objectMapRef
          /\ pre.individualIsolatedId # lastOp.arg) =>
           hiddenObjects = IsolationComplement(lastOp.arg)

\* global isolation was entered on a node below the root while other nodes,
\* now visible again, were hidden
C7_Witness ==
    /\ lastOp.op = "toggleIsolationMode" /\ ~pre.isolationMode
    /\ pre.selectedId \in objectMapRef
    /\ Ancestors(pre.selectedId) # {}
    /\ pre.hiddenObjects \cap Ancestors(pre.selectedId) # {}
    /\ hiddenObjects # {}

\* C8: toggleVisibility(id) and toggleIndividualIsolation(id) with an id that
\* is not in the object map change nothing.
C8_UnknownIdNoOp ==
    (lastOp.op \in {"toggleVisibility", "toggleIndividualIsolation"}
       /\ lastOp.arg \notin objectMapRef) =>
        Snapshot = pre

\* C9: setSelectedById with an id absent from the object map (or null) and
\* setSelectedObject(null) end in the cleared selection.
C9_MissClearsSelection ==
    (\/ lastOp.op = "setSelectedById" /\ lastOp.arg \notin objectMapRef
     \/ lastOp.op = "setSelectedObject" /\ lastOp.arg = NoId) =>
        /\ selectedId = NoId
        /\ selectedItem = NoId
        /\ selectedIds = <<>>

\* setSelectedById with an unknown id has just cleared a group selection
C9_Witness ==
    /\ lastOp.op = "setSelectedById"
    /\ lastOp.arg \notin objectMapRef
    /\ pre.selectedId \in objectMapRef
    /\ Len(pre.selectedIds) > 1
    /\ selectedId = NoId

\* C10: toggleIndividualIsolation(X) twice in succession, starting where X is
\* not the isolated id, ends with hiddenObjects empty and
\* individualIsolatedId null.
C10_DoubleIsolationExits ==
    (pre2.same /\ lastOp.op = "toggleIndividualIsolation"
       /\ pre2.individualIsolatedId # lastOp.arg) =>
        /\ hiddenObjects = {}
        /\ individualIsolatedId = NoId

\* the second call has left an isolation that was hiding nodes
C10_Witness ==
    /\ pre2.same /\ lastOp.op = "toggleIndividualIsolation"
    /\ pre2.individualIsolatedId # lastOp.arg
    /\ lastOp.arg \in objectMapRef
    /\ pre.hiddenObjects # {}
    /\ pre.individualIsolatedId = lastOp.arg
    /\ hiddenObjects = {}

\* C11: showAll from any state yields hiddenObjects empty, isolationMode false
\* and individualIsolatedId null, and a second showAll changes nothing.
C11_ShowAllResetsAndIsIdempotent ==
    lastOp.op = "showAll" =>
        /\ hiddenObjects = {}
        /\ isolationMode = FALSE
        /\ individualIsolatedId = NoId
        /\ pre2.same => Snapshot = pre

\* showAll has just left a state with hidden nodes and both isolation fields set
C11_Witness ==
    /\ lastOp.op = "showAll"
    /\ pre.hiddenObjects # {}
    /\ pre.isolationMode
    /\ pre.individualIsolatedId # NoId
    /\ hiddenObjects = {}

\* the three isolation states of the claim
IsoNone == ~isolationMode /\ individualIsolatedId = NoId

IsoGlobal == isolationMode /\ individualIsolatedId = NoId

IsoIndividual(id) == ~isolationMode /\ individualIsolatedId = id

\* C12: no isolation state is terminal: from None, Global and Individual(id)
\* each of the other two is reachable by store operations.  Stated as the
\* steps that exist in every reachable state: showAll leads to None; from None
\* toggleIndividualIsolation(id) leads to Individual(id); with a selection and
\* isolationMode false (so from None and from Individual) toggleIsolationMode
\* leads to Global; and once a scene is loaded a selection can always be made
\* without touching the isolation state.
C12_NoTerminalIsolationState ==
    /\ ENABLED (showAll /\ IsoNone')
    /\ IsoNone =>
         \A id \in AllIds :
             ENABLED (toggleIndividualIsolation(id) /\ IsoIndividual(id)')
    /\ (~isolationMode /\ selectedId # NoId) =>
         ENABLED (toggleIsolationMode /\ IsoGlobal')
    /\ objectMapRef # {} =>
         ENABLED (\E id \in AllIds :
                     /\ setSelectedById(id)
                     /\ selectedId' # NoId
                     /\ UNCHANGED <<isolationMode, individualIsolatedId>>)

\* Global has just been entered from an individual isolation
C12_Witness ==
    /\ lastOp.op = "toggleIsolationMode"
    /\ pre.individualIsolatedId # NoId
    /\ ~pre.isolationMode
    /\ IsoGlobal

\* the meshes below (or at) id, in the order the scene traversal meets them
MeshesBelow(id, s) ==
    SelectSeq(traverse(SceneRoot(s)),
              LAMBDA d : type(d) = "Mesh" /\ (d = id \/ IsDescendant(d, id)))

\* the scene whose map is loaded
LoadedScene == CHOOSE s \in Scenes : objectMapRef = SceneMap(s)

\* C16 (as claimed): for an id of the map the cache gives [id] for a leaf mesh
\* and otherwise every mesh id of the subtree in traversal order; for an id
\* outside the map it gives [].
C16_CacheLeafOrAllMeshes ==
    \A id \in AllIds :
        getDescendantMeshIds(id) =
            IF id \notin objectMapRef THEN <<>>
            ELSE IF type(id) = "Mesh" /\ children(id) = <<>> THEN <<id>>
            ELSE MeshesBelow(id, LoadedScene)

\* C16 (amended): for an id of the map the cache gives [id] for every Mesh,
\* with or without children, and for any other node every mesh id of its
\* subtree in traversal order; for an id outside the map it gives []; and this
\* holds after any store operation, so only setObjectMap changes the cache.
C16_CacheMeshOrAllMeshes ==
    \A id \in AllIds :
        getDescendantMeshIds(id) =
            IF id \notin objectMapRef THEN <<>>
            ELSE IF type(id) = "Mesh" THEN <<id>>
            ELSE MeshesBelow(id, LoadedScene)

\* selection, visibility and isolation calls have run on a loaded scene whose
\* cache holds a group entry of several meshes and a mesh that has a child
C16_Witness ==
    /\ objectMapRef # {}
    /\ lastOp.op = "toggleIndividualIsolation"
    /\ hiddenObjects # {}
    /\ selectedId # NoId
    /\ \E id \in objectMapRef :
          type(id) = "Group" /\ Len(getDescendantMeshIds(id)) > 1
    /\ \E id \in objectMapRef :
          type(id) = "Mesh" /\ children(id) # <<>>

\* C13: after setExplosionFactor(v) the stored factor is 0 for a v that is not
\* a finite number, 0 for v < 0, 1 for v > 1 and v otherwise; so the factor
\* lies in [0, 1] in every state (0 initially and after resetExplosion).
C13_FactorClamped ==
    /\ explosionFactor \in 0..Unit
    /\ explosionInput.kind = "none" => explosionFactor = 0
    /\ explosionInput.kind \in {"NaN", "Infinity", "-Infinity"} =>
           explosionFactor = 0
    /\ explosionInput.kind = "number" =>
           explosionFactor =
               IF explosionInput.n < 0 THEN 0
               ELSE IF explosionInput.n > Unit THEN Unit
               ELSE explosionInput.n

\* 1.5 has been passed and the factor is 1
C13_Witness ==
    /\ explosionInput = [kind |-> "number", n |-> Unit + InputSpan]
    /\ explosionFactor = Unit

RECURSIVE SelfAndAncestors(_, _)
\* x and every object on the parent chain above it
SelfAndAncestors(T, x) ==
    IF x = 0 THEN {} ELSE {x} \cup SelfAndAncestors(T, T.parent[x])

\* x is a mesh or lies above one
ContainsMesh(T, x) == \E m \in T.mesh : x \in SelfAndAncestors(T, m)

\* the children of the root that contain a mesh
RootGroups(T) == {c \in 2..T.size : T.parent[c] = 1 /\ ContainsMesh(T, c)}

\* the immediate parents of the meshes
ParentsOfMeshes(T) == {T.parent[m] : m \in T.mesh}

\* the sequence lists exactly the members of the set, each once
Lists(q, S) == Range(q) = S /\ Len(q) = Cardinality(S)

C19_MeshFallback ==
    explosionNodes.done =>
        /\ Len(explosionNodes.step3) < 3 =>
              Lists(explosionNodes.picked, root.mesh)
        /\ explosionNodes.picked = <<>> => root.mesh = {}
        /\ explosionNodes.nodes = explosionNodes.picked

\* one or two candidates were dropped for the list of three or more meshes
C19_Witness ==
    /\ explosionNodes.done
    /\ Len(explosionNodes.step3) \in {1, 2}
    /\ Len(explosionNodes.picked) >= 3
    /\ explosionNodes.picked # explosionNodes.step3

\* the indices of the nodes that share the parent of the node at i
GroupOf(i) == {j \in 1..Len(nodeData) : nodeData[j].parent = nodeData[i].parent}

\* how many nodes of the group of i have a smaller sibling key
KeyRank(i) ==
    Cardinality({j \in GroupOf(i) :
        LocaleCompare(SiblingKey(nodeData[j]), SiblingKey(nodeData[i])) < 0})

RECURSIVE SumNum(_)
SumNum(S) ==
    IF S = {}
    THEN 0
    ELSE LET j == CHOOSE x \in S : TRUE
         IN siblingOffsetByIndex.offsets[j].num + SumNum(S \ {j})

\* C20: every node gets exactly one offset; within a group of nodes sharing a
\* parent the offsets lie in [-1, 1], sum to zero and rise in equal steps in
\* the order of the sibling keys (whatever the order of the list); a node
\* without sibling gets 0.
C20_SiblingOffsets ==
    siblingOffsetByIndex.called =>
        LET off == siblingOffsetByIndex.offsets
            rank == [i \in 1..Len(nodeData) |-> KeyRank(i)]
            group == [i \in 1..Len(nodeData) |-> GroupOf(i)]
        IN
        /\ DOMAIN off = 1..Len(nodeData)
        /\ \A i \in 1..Len(nodeData) :
              /\ off[i].den > 0
              /\ off[i].num <= off[i].den /\ 0 - off[i].num <= off[i].den
              /\ SumNum(group[i]) = 0
              /\ Cardinality(group[i]) = 1 => off[i].num = 0
              /\ \A j \in group[i] :
                    /\ off[j].den = off[i].den
                    /\ rank[j] = rank[i] + 1 =>
                          /\ off[j].num > off[i].num
                          /\ \A k, l \in group[i] :
                                rank[l] = rank[k] + 1 =>
                                    off[j].num - off[i].num = off[l].num - off[k].num

\* offsets were built for a list holding a group of three or more siblings
\* that is not in key order, next to a node without sibling
C20_Witness ==
    /\ siblingOffsetByIndex.called
    /\ \E i, j \in 1..Len(nodeData) :
          /\ Cardinality(GroupOf(i)) >= 3
          /\ j \in GroupOf(i) /\ i < j /\ KeyRank(i) > KeyRank(j)
    /\ \E i \in 1..Len(nodeData) : Cardinality(GroupOf(i)) = 1

\* the positions in the log of examinations where pair {a, b} was examined
\* in pass p
ExaminationsOf(p, a, b) ==
    {i \in 1..Len(overlapRun.examined) :
        /\ overlapRun.examined[i][1] = p
        /\ {overlapRun.examined[i][2], overlapRun.examined[i][3]} = {a, b}}

\* a returned call examined nothing and wrote nothing when it had fewer than
\* 2 entries, and otherwise examined every unordered pair exactly once in each
\* of the 3 passes, 3 n (n - 1) / 2 examinations in all
ResolveCounts ==
    overlapRun.pc = "done" =>
        IF overlapRun.length < 2
        THEN overlapRun.examined = <<>> /\ overlapRun.changed = {}
        ELSE /\ 2 * Len(overlapRun.examined) =
                    3 * overlapRun.length * (overlapRun.length - 1)
             /\ \A p \in 0..2 : \A a, b \in 0..(overlapRun.length - 1) :
                    a # b => Cardinality(ExaminationsOf(p, a, b)) = 1

\* C17: every call of resolveProjectedOverlaps returns, and it returns after
\* exactly 3 passes with every unordered pair examined once per pass, whether
\* or not overlaps were found; with fewer than 2 entries it examines and
\* changes nothing.
C17_ThreeFullPasses ==
    /\ [](ResolveCounts)
    /\ (overlapRun.pc = "entry") ~> (overlapRun.pc = "done")

\* a call with three or more entries returned although the last pass still
\* found an overlap, after a pass that found none
C17_Witness ==
    /\ overlapRun.pc = "done"
    /\ overlapRun.length >= 3
    /\ 2 \in overlapRun.overlapInPass
    /\ 1 \notin overlapRun.overlapInPass

\* C14: once the effect is torn down (unmount, scene change), and whatever
\* frames ran before at whatever factors, every object that was one of its
\* targets sits at the initial position captured when its targets were built,
\* and stays there through every later frame, until an effect takes it as a
\* target again.
C14_TeardownRestoresPositions ==
    \A n \in effectLog.tornDown : position[n] = effectLog.captured[n]

\* a frame that moved the targets in place ran after a teardown which found
\* a target away from its initial position
C14_Witness ==
    /\ effectLog.lastStep = "Frame"
    /\ effectLog.tornDown \cap effectLog.restored # {}
    /\ Displaced(explosionTargetsRef, position) # {}

C21_CrowdingMultiplierCapped ==
    /\ Len(crowdingRun.worldTargets) = Len(crowdingRun.built)
    /\ \A i \in 1..Len(crowdingRun.worldTargets) :
          LET entry == crowdingRun.worldTargets[i]
              score == crowdingRun.built[i].crowdingScore
              capped == IF 2 * score.num <= 7 * score.den THEN score
                        ELSE [num |-> 7, den |-> 2]
          IN
          /\ score.num >= 0
          /\ entry.crowdingMultiplier = crowdingRun.built[i].crowdingMultiplier
          /\ entry.crowdingMultiplier = Frac(2 * capped.den + capped.num, 2 * capped.den)
          /\ entry.crowdingMultiplier.den <= entry.crowdingMultiplier.num
          /\ 4 * entry.crowdingMultiplier.num <= 11 * entry.crowdingMultiplier.den

\* the resolver pushed a pair apart whose member has a score above the cap
\* and so the multiplier 2.75, next to a node with a multiplier below that
C21_Witness ==
    /\ crowdingRun.stage = "resolved"
    /\ \E i, j \in 1..Len(crowdingRun.worldTargets) :
          /\ crowdingRun.worldTargets[i].turns > 0
          /\ Less(crowdingCap, crowdingRun.built[i].crowdingScore)
          /\ crowdingRun.worldTargets[i].crowdingMultiplier = Frac(11, 4)
          /\ Less(crowdingRun.worldTargets[j].crowdingMultiplier, Frac(11, 4))

\* the last examination found its pair at or above the gap
AtOrAboveGap == Leq(PairGap, spreadRun.last.distance)

\* C22: a spread gain starts at 1 and never falls: an examination changes its
\* pair only when the minimum sampled distance is below the minimum gap, the
\* overlap ratio is then in (0, 1] and both gains are multiplied by the same
\* 1 + ratio x 0.24 in (1, 1.24]; a pair at or above the gap, and every
\* descriptor outside the pair, is left unchanged. So every spreadGain is at
\* least 1 and every compiled localDistanceMultiplier is at least 0.
C22_SpreadGainNeverFalls ==
    /\ \A i \in 1..Len(spreadRun.entries) :
          /\ spreadRun.entries[i].spreadGain.num >= spreadRun.entries[i].spreadGain.den
          /\ spreadRun.next = 1 => spreadRun.entries[i].spreadGain = Whole(1)
    /\ spreadRun.last.examined =>
          LET before == spreadRun.last.before
              pair == {spreadRun.last.left + 1, spreadRun.last.right + 1}
              distance == spreadRun.last.distance
              ratio == [num |-> PairGap.num * distance.den - distance.num * PairGap.den,
                        den |-> PairGap.num * distance.den]
              factor == [num |-> 100 * ratio.den + 24 * ratio.num, den |-> 100 * ratio.den]
          IN
          /\ \A i \in 1..Len(before) : i \notin pair => spreadRun.entries[i] = before[i]
          /\ AtOrAboveGap => spreadRun.entries = before
          /\ ~AtOrAboveGap =>
                /\ ratio.num > 0 /\ ratio.num <= ratio.den
                /\ factor.num > factor.den /\ 100 * factor.num <= 124 * factor.den
                /\ \A i \in pair :
                      /\ spreadRun.entries[i].spreadGain =
                            Times(before[i].spreadGain, Frac(factor.num, factor.den))
                      /\ Less(before[i].spreadGain, spreadRun.entries[i].spreadGain)
    /\ \A i \in 1..Len(spreadRun.targets) :
          spreadRun.targets[i].localDistanceMultiplier.num >= 0

\* targets were compiled after a run in which a descriptor was boosted more
\* than once and the last pair examined was at or above the gap
C22_Witness ==
    /\ spreadRun.stage = "compiled"
    /\ spreadRun.last.examined
    /\ AtOrAboveGap
    /\ \E i \in 1..Len(spreadRun.entries) : spreadRun.entries[i].turns >= 2

\* the result of the last call has length 1
UnitResult == LengthSq(directionRun.result) = Whole(1)

\* C23: every call of getDeterministicDirection, getPerpendicularDirection and
\* toLocalDirection returns a vector of length 1, a zero-length or parallel
\* input direction and the empty seed included, and the vector built from the
\* hash bytes is never the zero vector.
C23_DirectionsAreUnit ==
    /\ directionRun.fn # "none" => UnitResult
    /\ \A byte \in 0..255 : RawComponent(byte) # 0
    /\ RawDirection(directionRun.seedString).v # <<0, 0, 0>>

\* what holds of the three functions: the result has length 1 unless
\* toLocalDirection was given the zero vector, which it returns
DirectionsAreUnitButLocalZero ==
    directionRun.fn # "none" =>
        IF directionRun.fn = "toLocalDirection" /\ directionRun.direction.v = <<0, 0, 0>>
        THEN directionRun.result.v = <<0, 0, 0>>
        ELSE UnitResult

\* the step just taken is a loadParts call
IsLoadPartsCall == partsLoader.last.step \in {"cached", "fetch"}

\* C24: a loadParts call made after a call completed successfully returns
\* that call's data from the cache without a fetch, as long as clearCache was
\* not called in between; the first loadParts call after clearCache fetches.
C24_CacheUntilCleared ==
    /\ (IsLoadPartsCall /\ partsLoader.last.settled # "none") =>
          /\ partsLoader.last.step = "cached"
          /\ partsLoader.last.data = partsLoader.last.settled
    /\ (IsLoadPartsCall /\ partsLoader.last.afterClear) =>
          partsLoader.last.step = "fetch"

\* what holds of the service: the same for calls that follow a completion
\* with an object and a clearCache made while no fetch was in flight, and
\* before any other call has resolved
CacheUntilClearedWhenSequential ==
    /\ (IsLoadPartsCall /\ Truthy(partsLoader.last.settled)
           /\ partsLoader.last.pending = 0 /\ partsLoader.cachedParts = partsLoader.last.settled) =>
          /\ partsLoader.last.step = "cached"
          /\ partsLoader.last.data = partsLoader.last.settled
    /\ (IsLoadPartsCall /\ partsLoader.last.afterClear /\ partsLoader.last.settled = "none") =>
          partsLoader.last.step = "fetch"

\* the scene was not loaded after the row's last step
NoLoadSince == lastOp.op # "setObjectMap"

\* the store ran toggleVisibility(n) once on the state it found
ToggledVisibilityOnce(n) ==
    /\ lastOp = Call("toggleVisibility", n)
    /\ hiddenObjects = IF n \in objectMapRef THEN ToggledHidden(n, pre.hiddenObjects)
                       ELSE pre.hiddenObjects

\* the store ran toggleIndividualIsolation(n) once on the state it found
ToggledIsolationOnce(n) ==
    /\ lastOp = Call("toggleIndividualIsolation", n)
    /\ individualIsolatedId = IF pre.individualIsolatedId = n THEN NoId ELSE n
    /\ hiddenObjects = IF pre.individualIsolatedId = n THEN {}
                       ELSE IndividualIsolationHidden(n)

\* C25: a click on the visibility icon with no timer pending starts a timer;
\* the timer expiring calls toggleVisibility(node.id) once;
\* a second click while the timer is pending cancels it and calls
\* toggleIndividualIsolation(node.id) once, and the cancelled timer never
\* calls toggleVisibility; a node has at most one timer pending.
C25_ClickProtocol ==
    /\ iconClick.last.step = "first" =>
          /\ [id |-> iconClick.last.timer, node |-> iconClick.last.node] \in iconClick.timers
          /\ iconClick.clickTimeoutRef[iconClick.last.node] = iconClick.last.timer
    /\ iconClick.last.step = "expired" =>
          /\ NoLoadSince => ToggledVisibilityOnce(iconClick.last.node)
          /\ iconClick.last.timer \notin iconClick.paired
    /\ iconClick.last.step = "second" =>
          /\ NoLoadSince => ToggledIsolationOnce(iconClick.last.node)
          /\ \A t \in iconClick.timers : t.id # iconClick.last.timer
          /\ iconClick.clickTimeoutRef[iconClick.last.node] = 0
    /\ \A n \in IconNodes : Cardinality(TimersOf(n)) <= 1

\* a timer ran out, and another was answered by a second click
C25_Witness ==
    /\ iconClick.last.step = "expired"
    /\ iconClick.paired # {}
    /\ hiddenObjects # pre.hiddenObjects

\* C26: a timer that was pending when its row unmounted never runs, so the
\* row calls toggleVisibility no more after it unmounted; no live timer
\* belongs to an unmounted row.
C26_UnmountCancelsTimer ==
    /\ iconClick.last.step = "expired" => iconClick.last.timer \notin iconClick.orphaned
    /\ \A t \in iconClick.timers : iconClick.mounted[t.node]

\* a row unmounted with its timer pending, was rendered again, and the new
\* row's timer ran out
C26_Witness ==
    /\ iconClick.last.step = "expired"
    /\ \E t \in iconClick.orphaned : t < iconClick.last.timer

\* C27: in the state the visibility sync leaves, no id of selectedIds and not
\* selectedId is in hiddenObjects, whatever selections, visibility toggles and
\* isolation operations came before.
C27_SyncClearsHiddenSelection ==
    canvasView.last.step = "sync" => canvasView.last.stillHidden = {}

\* the flags on the scene objects are those of the current hidden set
Synced == canvasView.isHidden = Flagged \cap hiddenObjects

\* what a click on `intersections` must do
ClickSelectsFirstVisible(intersections) ==
    LET shown == {i \in 1..Len(intersections) : intersections[i] \notin canvasView.isHidden}
        first == CHOOSE i \in shown : \A j \in shown : i <= j
    IN IF shown = {}
       THEN /\ UNCHANGED store
            /\ canvasView'.lastHoveredRef = canvasView.lastHoveredRef
       ELSE /\ selectedId' = intersections[first]
            /\ selectedIds' = <<intersections[first]>>
            /\ Synced => intersections[first] \notin hiddenObjects

\* C28: a canvas click selects the first intersected object that is not
\* flagged hidden; when all are hidden or there is none it changes neither
\* the selection nor the hover; with the flags synchronised the object
\* selected is not in hiddenObjects.
C28_ClickPicksFirstVisible ==
    [][(canvasView'.last.step = "click"
           /\ (canvasView' # canvasView \/ lastOp'.op = "setSelectedObject")) =>
          \A n \in 0..MaxHits : \A intersections \in Intersections(n) :
             HandleClick(intersections) => ClickSelectsFirstVisible(intersections)]_vars

\* a click passed over a hidden object and selected the one behind it, with
\* the flags synchronised
C28_Witness ==
    /\ canvasView.last.step = "click"
    /\ canvasView.last.skipped > 0
    /\ canvasView.last.picked # NoId
    /\ selectedId = canvasView.last.picked
    /\ Synced /\ hiddenObjects # {}

RECURSIVE IdsOf(_)
\* the ids of the nodes of a list of trees
IdsOf(nodes) ==
    IF nodes = <<>> THEN {}
    ELSE {Head(nodes).id} \cup IdsOf(Head(nodes).children) \cup IdsOf(Tail(nodes))

\* the nodes of the hierarchy that satisfied the filter when the memo ran
Matching ==
    {n \in IdsOf(Items) :
        /\ \/ SearchTerm(hierarchyFilter.debouncedSearch) = <<>>
           \/ Includes(ToLowerCase(HierarchyName(n)), SearchTerm(hierarchyFilter.debouncedSearch))
        /\ hierarchyFilter.onlyVisible => n \notin hierarchyFilter.seenHidden}

FilterActive ==
    SearchTerm(hierarchyFilter.debouncedSearch) # <<>> \/ hierarchyFilter.onlyVisible

\* C29: with a filter active the filtered tree holds every matching node,
\* every ancestor of a matching node and the whole subtree below a matching
\* node; with no filter active the result is the original tree, an empty
\* matched set and no first match.
C29_FilterKeepsMatchesAncestorsSubtrees ==
    hierarchyFilter.computed =>
        IF FilterActive
        THEN \A n \in Matching :
                /\ n \in IdsOf(hierarchyFilter.filteredItems)
                /\ (Ancestors(n) \cap IdsOf(Items)) \subseteq IdsOf(hierarchyFilter.filteredItems)
                /\ (Subtree(n) \cap IdsOf(Items)) \subseteq IdsOf(hierarchyFilter.filteredItems)
        ELSE /\ hierarchyFilter.filteredItems = Items
             /\ hierarchyFilter.matchedIds = {}
             /\ hierarchyFilter.firstMatchId = NoId

\* what holds of the filter: matches and their ancestors are kept and the
\* matched set is the set of matching nodes; without a filter the tree is the
\* original one
FilterKeepsMatchesAndAncestors ==
    hierarchyFilter.computed =>
        IF FilterActive
        THEN /\ hierarchyFilter.matchedIds = Matching
             /\ \A n \in Matching :
                   /\ n \in IdsOf(hierarchyFilter.filteredItems)
                   /\ (Ancestors(n) \cap IdsOf(Items)) \subseteq IdsOf(hierarchyFilter.filteredItems)
        ELSE /\ hierarchyFilter.filteredItems = Items
             /\ hierarchyFilter.matchedIds = {}
             /\ hierarchyFilter.firstMatchId = NoId

\* C30: a value set by the timeout is the value the input has at that moment
\* and has held for the whole delay of that timeout, in a mounted component;
\* a change of the input leaves exactly the timeout of the new value pending
\* with its full delay ahead, so a replaced value is never emitted; after
\* unmount no timeout is pending.
C30_DebouncedOnlyAfterFullDelay ==
    /\ debounced.last.step = "emit" =>
          /\ debounced.last.emitted = debounced.last.input
          /\ debounced.last.heldFor >= debounced.last.delay
          /\ debounced.last.mounted
    /\ debounced.last.step = "change" =>
          debounced.timers = {[value |-> debounced.value, delay |-> debounced.delay,
                               left |-> debounced.delay]}
    /\ \A t \in debounced.timers : t.value = debounced.value
    /\ ~debounced.mounted => debounced.timers = {}

\* a value was emitted after an earlier change had cancelled a pending
\* timeout, and it differs from the value before it
C30_Witness ==
    /\ debounced.last.step = "emit"
    /\ debounced.cancelled
    /\ debounced.last.emitted # ""
    /\ debounced.last.delay = MaxDelay

\* ------------------------------------------------------------------------
\* C31: in every state reachable by store operations, a reload of the object
\* map included, every id in hiddenObjects, selectedId, every id of
\* selectedIds and individualIsolatedId (when set) is a key of the current
\* object map
\* ------------------------------------------------------------------------
StoredIds ==
    hiddenObjects \cup Range(selectedIds)
    \cup ({selectedId, individualIsolatedId} \ {NoId})

C31_StoredIdsAreMapKeys == StoredIds \subseteq objectMapRef

\* ------------------------------------------------------------------------
\* C32: store operations touch only their own slice: toggleVisibility,
\* toggleIsolationMode, toggleIndividualIsolation and showAll never change
\* selectedId, selectedIds, selectedItem or explosionFactor; setSelectedObject,
\* setSelectedById and clearSelection never change hiddenObjects,
\* isolationMode or individualIsolatedId; setExplosionFactor and
\* resetExplosion change only explosionFactor
\* ------------------------------------------------------------------------
VisibilityOps ==
    {"toggleVisibility", "toggleIsolationMode", "toggleIndividualIsolation",
     "showAll"}

SelectionOps == {"setSelectedObject", "setSelectedById", "clearSelection"}

selectionSlice == <<selectedItem, selectedId, selectedIds>>

visibilitySlice == <<hiddenObjects, isolationMode, individualIsolatedId>>

\* the step is a call of a selection / visibility / isolation operation
IsStoreCall == <<lastOp, pre, pre2>>' # <<lastOp, pre, pre2>>

\* the step is a call of setExplosionFactor or resetExplosion
IsExplosionCall == ~IsStoreCall /\ explosionInput' # explosionInput

OwnSliceOnly ==
    /\ IsStoreCall /\ lastOp'.op \in VisibilityOps
           => UNCHANGED <<selectionSlice, explosionFactor>>
    /\ IsStoreCall /\ lastOp'.op \in SelectionOps
           => UNCHANGED <<visibilitySlice, explosionFactor>>
    /\ IsExplosionCall => UNCHANGED <<selectionSlice, visibilitySlice>>

C32_OwnSliceOnly == [][OwnSliceOnly]_vars

\* a visibility call, a selection call and the slider have each acted on a
\* state where the other slices hold something to lose
C32_Witness ==
    /\ lastOp.op = "toggleVisibility"
    /\ hiddenObjects # pre.hiddenObjects
    /\ selectedId # NoId
    /\ explosionFactor = Unit
    /\ isolationMode

\* ------------------------------------------------------------------------
\* C33: while an isolation is recorded for a focus node of the object map
\* (individualIsolatedId = x, or isolationMode with selectedId = x), the
\* focus node, its descendants and its ancestors are all visible
\* ------------------------------------------------------------------------
IsolationFocus ==
    (({individualIsolatedId} \cup (IF isolationMode THEN {selectedId} ELSE {}))
        \ {NoId}) \cap objectMapRef

C33_FocusStaysVisible ==
    \A x \in IsolationFocus :
        (Subtree(x) \cup Ancestors(x)) \cap hiddenObjects = {}

\* ------------------------------------------------------------------------
\* C34: the explosion nodes chosen by pickExplosionNodes are pairwise
\* disjoint sub-trees: no chosen node is an ancestor of another chosen node
\* and none is chosen twice
\* ------------------------------------------------------------------------
C34_NodesAreDisjointSubtrees ==
    explosionNodes.done =>
        LET picked == explosionNodes.picked IN
        \A i, j \in 1..Len(picked) :
            i # j => picked[i] \notin SelfAndAncestors(root, picked[j])

\* ------------------------------------------------------------------------
\* C35: for any interleaving of pointer-over, pointer-out, click,
\* pointer-missed and hidden-set changes, the last value passed to onHover
\* equals the tracked hovered object (null initially), and onHover is never
\* invoked twice in a row with the same argument
\* ------------------------------------------------------------------------
C35_OnHoverFollowsHovered ==
    /\ canvasView.onHoverArg = canvasView.lastHoveredRef
    /\ ~canvasView.onHoverRepeated

\* the sync effect has cleared the hover of an object that was hidden while
\* hovered
C35_Witness ==
    /\ canvasView.last.step = "sync"
    /\ canvasView.last.unhovered = "m3"
    /\ canvasView.lastHoveredRef = NoId
    /\ canvasView.onHoverArg = NoId

\* ------------------------------------------------------------------------
\* C36: however many callers invoke loadParts() before the first call has
\* resolved, at most one fetch of the parts file is issued until clearCache()
\* is called
\* ------------------------------------------------------------------------
C36_OneFetchBeforeFirstResolves ==
    partsLoader.firstWave => partsLoader.pending <= 1

====
